---- MODULE Spec2Model ----
(***************************************************************************)
(* A model of the EDMCOverlay client (src/edmcoverlay_improved.py):        *)
(*   - Overlay._sanitize_message, the whitelist filter applied to every    *)
(*     outbound message (specification SpecSanitize);                      *)
(*   - Overlay.connect / disconnect / send_raw with the connection         *)
(*     context manager, run by one caller (specification Spec);            *)
(*   - ServiceManager.ensure_service / is_service_alive / stop_service     *)
(*     with the child process, the filesystem and the host application as  *)
(*     environment, run by one caller (specification SpecService);         *)
(*   - Overlay.connect / disconnect / send_raw run by two threads on one   *)
(*     instance (specification SpecThreads).                               *)
(***************************************************************************)
EXTENDS Integers, Sequences, FiniteSets, TLC

VARIABLES
    raw,        \* sanitizer: the mapping handed to _sanitize_message
    sanitized,  \* sanitizer: the mapping it returned for raw
    resanitized,\* sanitizer: the mapping it returned for sanitized
    phase,      \* sanitizer: "input" | "once" | "twice"
    connection, \* Overlay.connection: 0 (None) or the socket held
    locked,     \* Overlay._lock is held
    pc,         \* the caller's position in the code
    stack,      \* where the calls in progress return to, innermost last
    exc,        \* the exception being raised ("none": a normal return)
    arg,        \* the argument of the send_raw call in progress
    conn,       \* send_raw: the socket the context manager yielded
    attempt,    \* connect: the loop variable
    op,         \* the public operation called last
    result,     \* how it ended: "none" while it runs, "ok", or the exception
    log,        \* the I/O events of that operation, in order
    sent,       \* what the sockets accepted during that operation, in order
    entryConn,  \* connection when that operation was called
    monitor,    \* the host's monitor module was imported (else monitor = None)
    game,       \* monitor.monitor.game_running()
    fs,         \* the candidate locations that hold the executable now
    service,    \* ServiceManager._service: 0 (None) or the child's process id
    child,      \* the process _service refers to: running or its exit status
    program_path, \* ServiceManager._program_path: "None" or the cached path
    service_lock, \* ServiceManager._lock is held
    spc,        \* supervisor: the caller's position in the code
    sop,        \* supervisor: the public operation called last
    program,    \* ensure_service: the local variable program
    err,        \* ensure_service: the exception caught at "except Exception"
    probe,      \* is_service_alive: test_overlay.connection is open
    alive,      \* is_service_alive: the value it returned last
    sresult,    \* supervisor: how the operation ended
    slog,       \* supervisor: the external events of that operation, in order
    entryService, \* _service when that operation was called
    entryPath,  \* _program_path when that operation was called
    fsAtFind,   \* fs when that operation called find_server_program
    thr,        \* threads on one Overlay: each thread's position and locals
    open,       \* threads: the sockets connected and not closed
    pending,    \* threads: what the connection took since its last newline
    other,      \* the fields of the ServiceManager instance not being called
    sthr,       \* threads on one ServiceManager: each thread's position
    call,       \* the send operation of the Overlay in progress, or called last
    orphan,     \* a child whose handle stop_service dropped is still running
    hook,       \* the plugin hook of load.py in progress, or called last
    heap,       \* config.py: the nested dict objects, by identity
    configs,    \* config.py: the Config instances
    legacy,     \* edmcoverlay.py: the legacy Overlay client and its call
    endpoint_up \* from now on the endpoint accepts connections and writes

sanVars == <<raw, sanitized, resanitized, phase>>

cliVars == <<connection, locked, pc, stack, exc, arg, conn, attempt, op, result, log,
             sent, entryConn>>

svcVars == <<monitor, game, fs, service, child, program_path, service_lock, spc, sop,
             program, err, probe, alive, sresult, slog, entryService, entryPath,
             fsAtFind>>

thrVars == <<thr, open, pending>>

extVars == <<hook, heap, configs, legacy, endpoint_up>>

plugVars == <<other, sthr, call, orphan, extVars>>

vars == <<sanVars, cliVars, svcVars, thrVars, plugVars>>

-----------------------------------------------------------------------------
(* Python values.  A value is its runtime type, its characters (for a str)  *)
(* and its number (for an int, a float or a bool).                          *)

\* str(value)[:1000] at edmcoverlay_improved.py:329
MAX_TEXT_LEN == 1000

\* RECONNECT_ATTEMPTS at edmcoverlay_improved.py:22
RECONNECT_ATTEMPTS == 3

\* the largest number of fields of a message handed to the sanitizer
MaxFields == 2

PyStr(s) == [t |-> "str", s |-> s, n |-> 0]
PyInt(n) == [t |-> "int", s |-> <<>>, n |-> n]
PyFloat(n) == [t |-> "float", s |-> <<>>, n |-> n]
PyBool(n) == [t |-> "bool", s |-> <<>>, n |-> n]
PyNone == [t |-> "NoneType", s |-> <<>>, n |-> 0]

\* the classes a runtime type is an instance of: bool is a subclass of int
Mro(t) == IF t = "bool" THEN {"bool", "int"} ELSE {t}

\* a type check that accepts every value
IsInstance_Any(value, expected_types) == TRUE

\* isinstance(value, expected_types)
IsInstance(value, expected_types) == Mro(value.t) \cap expected_types # {}

\* value[1:n]: the slice started one character late
Slice_FromOne(s, n) ==
    IF Len(s) <= 1 THEN <<>>
    ELSE SubSeq(s, 2, IF Len(s) <= n THEN Len(s) ELSE n)

\* value[:n]
Slice(s, n) == IF Len(s) <= n THEN s ELSE SubSeq(s, 1, n)

\* the whitelist of allowed keys and their types
allowed_fields ==
    [id      |-> {"str", "int"},
     text    |-> {"str"},
     color   |-> {"str"},
     size    |-> {"str"},
     x       |-> {"int", "float"},
     y       |-> {"int", "float"},
     ttl     |-> {"int", "float"},
     shape   |-> {"str"},
     fill    |-> {"str"},
     w       |-> {"int", "float"},
     h       |-> {"int", "float"},
     command |-> {"str"}]

\* the keys whose values get the additional length validation
LengthLimitedKeys == {"text", "color", "size", "shape", "fill", "command"}

\* the loop body without the "key in allowed_fields" test
Kept_NoWhitelist(key, value) ==
    \/ key \notin DOMAIN allowed_fields
    \/ /\ IsInstance(value, allowed_fields[key])
       /\ (key \in LengthLimitedKeys => IsInstance(value, {"str"}))

\* whether the loop body stores msg[key] into sanitized
Kept(key, value) ==
    /\ key \in DOMAIN allowed_fields
    /\ IsInstance(value, allowed_fields[key])
    /\ (key \in LengthLimitedKeys => IsInstance(value, {"str"}))

\* the value the loop body stores for a kept key
Stored(key, value) ==
    IF key \in LengthLimitedKeys
    THEN PyStr(Slice(value.s, MAX_TEXT_LEN))
    ELSE value

\* Overlay._sanitize_message
SanitizeMessage(msg) ==
    [key \in {k \in DOMAIN msg : Kept(k, msg[k])} |-> Stored(key, msg[key])]

-----------------------------------------------------------------------------
(* The inputs of the sanitizer: mappings of at most MaxFields fields.       *)

\* n characters: c up to the length limit, d beyond it
Chars(n, c, d) == [i \in 1..n |-> IF i <= MAX_TEXT_LEN THEN c ELSE d]

Keys == DOMAIN allowed_fields \cup {"malicious_field"}

Values ==
    { PyStr(<<"h", "i">>),
      PyStr(Chars(MAX_TEXT_LEN, "A", "B")),
      PyStr(Chars(MAX_TEXT_LEN + 1, "A", "B")),
      PyInt(0), PyFloat(15), PyBool(1), PyNone }

Messages ==
    UNION { [D -> Values] : D \in {S \in SUBSET Keys : Cardinality(S) <= MaxFields} }

\* find_server_program: the candidate locations, in the order they are tried
locations ==
    << "HERE/EDMCOverlay.exe",
       "HERE/EDMCOverlay/EDMCOverlay.exe",
       "HERE/EDMCOverlay/EDMCOverlay/bin/Release/EDMCOverlay.exe",
       "HERE/EDMCOverlay/EDMCOverlay/bin/Debug/EDMCOverlay.exe" >>

Paths == { locations[i] : i \in DOMAIN locations }

\* the locations at which the environment installs or removes the executable
InstallPaths == { locations[2], locations[4] }

\* what a child process can leave behind: Popen.returncode and the bytes on
\* its stderr pipe ("\xff" is a byte that is not valid UTF-8)
ExitCodes == {0, 1}

StderrOutputs == { <<>>, <<"boom">>, <<"bo", "\\xff", "om">> }

Running == [alive |-> TRUE, code |-> 0, stderr |-> <<>>]

Exited(code, stderr) == [alive |-> FALSE, code |-> code, stderr |-> stderr]

\* the process of no handle
NoChild == Exited(0, <<>>)

\* exceptions and results: the class and the message, a sequence of text pieces
Exc(type, msg) == [type |-> type, msg |-> msg]

NoExc == Exc("none", <<>>)

Ok == Exc("ok", <<>>)

\* an external event of a supervisor operation
Step(ev, pid, path, how) == [ev |-> ev, pid |-> pid, path |-> path, how |-> how]

\* ServiceManager.__init__, before any operation is called, in an environment
\* where the host application cannot be observed and no executable is installed
SvcInit ==
    /\ monitor = FALSE
    /\ game = TRUE
    /\ fs = {}
    /\ service = 0
    /\ child = NoChild
    /\ program_path = "None"
    /\ service_lock = FALSE
    /\ spc = "idle"
    /\ sop = "none"
    /\ program = "None"
    /\ err = NoExc
    /\ probe = FALSE
    /\ alive = FALSE
    /\ sresult = NoExc
    /\ slog = <<>>
    /\ entryService = 0
    /\ entryPath = "None"
    /\ fsAtFind = {}

\* the threads that call into one Overlay
Threads == {1, 2}

\* a thread that has called nothing yet
IdleThread ==
    [pc |-> "idle", stack |-> <<>>, exc |-> "none", conn |-> 0, attempt |-> 0,
     op |-> "none", tried |-> FALSE, overlap |-> FALSE]

\* the threads before any of them calls an operation
ThrInit ==
    /\ thr = [t \in Threads |-> IdleThread]
    /\ open = {}
    /\ pending = <<>>

\* a ServiceManager as __init__ leaves it: its handle, the process of the
\* handle and its cached path
NewManager == [service |-> 0, child |-> NoChild, program_path |-> "None"]

\* a thread that is in no operation of the ServiceManager
IdleCaller == [pc |-> "idle", op |-> "none"]

\* no send operation of the Overlay has been called
NoCall == [fn |-> "none", args |-> <<>>, made |-> <<>>]

\* the second ServiceManager instance, the threads and the Overlay's send
\* operations, before any call
\* load.py: no hook has been called yet, and "client = None"
IdleHook == [fn |-> "none", pc |-> "idle", made |-> <<>>, ret |-> "none", client |-> FALSE]

\* edmcoverlay.py, Overlay.__init__: "self.connection = None"
LegacyInit ==
    [connection |-> 0, dead |-> FALSE, pc |-> "idle", op |-> "none", arg |-> "none",
     pending |-> "none", exc |-> "none", made |-> <<>>, failed |-> FALSE]

\* a nested dict of the configuration, by the identity of the dict object
Dict(id) == [kind |-> "dict", at |-> id]

\* a value of the configuration that is not a dict
Scalar(v) == [kind |-> "value", at |-> v]

\* config.py: the dict given key k the value v
Put(f, k, v) == [x \in DOMAIN f \cup {k} |-> IF x = k THEN v ELSE f[x]]

\* config.py, DEFAULT_CONFIG: the nested dicts "server" and "overlay" (the
\* sections "logging" and "security" have the same shape); an int is written
\* by its digits
HeapInit ==
    [id \in {"server", "overlay"} |->
        IF id = "server"
        THEN [k \in {"address", "port"} |->
                 IF k = "address" THEN "127.0.0.1" ELSE "5010"]
        ELSE [k \in {"default_ttl"} |-> "4"]]

\* config.py, DEFAULT_CONFIG: the outer dict, which holds the nested dicts
DEFAULT_CONFIG == [k \in {"server", "overlay"} |-> Dict(k)]

\* the Config instances: the module's "config" and one made by a caller
Stores == {"config", "a"}

\* a Config that has not been constructed
NoConfig == [made |-> FALSE, top |-> <<>>, file |-> "none", own |-> FALSE]

PlugInit ==
    /\ other = NewManager
    /\ sthr = [t \in Threads |-> IdleCaller]
    /\ call = NoCall
    /\ orphan = FALSE
    /\ hook = IdleHook
    /\ heap = HeapInit
    /\ configs = [i \in Stores |-> NoConfig]
    /\ legacy = LegacyInit
    /\ endpoint_up = FALSE

\* Overlay.__init__, before any operation is called
CliInit ==
    /\ connection = 0
    /\ locked = FALSE
    /\ pc = "idle"
    /\ stack = <<>>
    /\ exc = "none"
    /\ arg = [isdict |-> FALSE, m |-> <<>>]
    /\ conn = 0
    /\ attempt = 0
    /\ op = "none"
    /\ result = "none"
    /\ log = <<>>
    /\ sent = <<>>
    /\ entryConn = 0

SanInit ==
    /\ raw \in Messages
    /\ sanitized = <<>>
    /\ resanitized = <<>>
    /\ phase = "input"
    /\ CliInit
    /\ SvcInit
    /\ ThrInit
    /\ PlugInit

\* sanitized = overlay._sanitize_message(msg)
Sanitize ==
    /\ phase = "input"
    /\ sanitized' = SanitizeMessage(raw)
    /\ phase' = "once"
    /\ UNCHANGED <<raw, resanitized>>
    /\ UNCHANGED <<cliVars, svcVars, thrVars, plugVars>>

\* overlay._sanitize_message(sanitized): the output handed back as an input
Resanitize ==
    /\ phase = "once"
    /\ resanitized' = SanitizeMessage(sanitized)
    /\ phase' = "twice"
    /\ UNCHANGED <<raw, sanitized>>
    /\ UNCHANGED <<cliVars, svcVars, thrVars, plugVars>>

SanNext == Sanitize \/ Resanitize

SpecSanitize == SanInit /\ [][SanNext]_vars

-----------------------------------------------------------------------------
(* The protocol client: Overlay.connect, disconnect, send_raw and the       *)
(* connection context manager, called by one caller.  Every step is one     *)
(* lock operation, one socket operation or one sleep of the code.           *)

\* json.dumps of one value: a str becomes a string, a bool true or false,
\* an int or a float a number
JsonValue(v) ==
    CASE v.t = "str" -> [j |-> "string", s |-> v.s, n |-> 0]
      [] v.t = "bool" -> [j |-> IF v.n = 0 THEN "false" ELSE "true", s |-> <<>>, n |-> 0]
      [] OTHER -> [j |-> "number", s |-> <<>>, n |-> v.n]

\* json.dumps(sanitized_msg, ensure_ascii=True): the JSON object of a mapping
JsonDumps(m) == [k \in DOMAIN m |-> JsonValue(m[k])]

\* what one conn.send put on a socket: the JSON text (all of it, or only a
\* leading part when send accepted fewer bytes than given) or the newline
Chunk(sock, kind, body, part) ==
    [sock |-> sock, kind |-> kind, body |-> body, part |-> part]

\* one I/O event of an operation
Ev(ev, sock, how) == [ev |-> ev, sock |-> sock, how |-> how]

\* the failures connect() catches
ConnectErrors == {"timeout", "ConnectionRefusedError", "OSError"}

\* the failures of conn.send
SendErrors == {"BrokenPipeError", "ConnectionResetError", "timeout"}

\* the arguments send_raw is called with: two mappings and a non-mapping
SendArgs ==
    { [isdict |-> TRUE, m |-> [command |-> PyStr(<<"t">>)]],
      [isdict |-> TRUE, m |-> [id |-> PyInt(0), malicious_field |-> PyStr(<<"r">>)]],
      [isdict |-> FALSE, m |-> <<>>] }

\* a call: continue at entry, come back at label
Call(entry, label) ==
    /\ pc' = entry
    /\ stack' = Append(stack, label)

\* a return (e = "none") or a raise of e out of the function in progress
Return(e) ==
    /\ pc' = stack[Len(stack)]
    /\ stack' = SubSeq(stack, 1, Len(stack) - 1)
    /\ exc' = e

\* socket.socket(): a socket object other than those referred to
NewSocket ==
    CHOOSE n \in 1..(Len(log) + 2) :
        /\ n # connection
        /\ \A i \in DOMAIN log : log[i].sock # n
        /\ \A k \in 1..(n - 1) : k = connection \/ \E i \in DOMAIN log : log[i].sock = k

\* the caller calls a public operation
Begin(name) ==
    /\ pc = "idle"
    /\ op' = name
    /\ result' = "none"
    /\ log' = <<>>
    /\ sent' = <<>>
    /\ entryConn' = connection
    /\ conn' = 0
    /\ attempt' = 0
    /\ pc' = name
    /\ stack' = <<"api_return">>
    /\ UNCHANGED <<connection, locked, exc>>

CallConnect == Begin("connect") /\ UNCHANGED arg

CallDisconnect == Begin("disconnect") /\ UNCHANGED arg

CallSendRaw == \E a \in SendArgs : Begin("send_raw") /\ arg' = a

\* the public operation returns or raises to the caller
ApiReturn ==
    /\ pc = "api_return"
    /\ result' = (IF exc = "none" THEN "ok" ELSE exc)
    /\ exc' = "none"
    /\ pc' = "idle"
    /\ UNCHANGED <<connection, locked, stack, arg, conn, attempt, sent, op, log,
                   entryConn>>

\* connect without the "if self.connection: return" test
ConnectEnter_NoCheck ==
    /\ pc = "connect"
    /\ ~locked
    /\ locked' = TRUE
    /\ attempt' = 0
    /\ pc' = "connect_attempt"
    /\ UNCHANGED <<stack, exc>>
    /\ UNCHANGED <<connection, arg, conn, sent, op, result, log, entryConn>>

\* connect: "with self._lock: if self.connection: return", else the loop starts
ConnectEnter ==
    /\ pc = "connect"
    /\ ~locked
    /\ IF connection # 0
       THEN /\ Return("none")
            /\ UNCHANGED <<locked, attempt>>
       ELSE /\ locked' = TRUE
            /\ attempt' = 0
            /\ pc' = "connect_attempt"
            /\ UNCHANGED <<stack, exc>>
    /\ UNCHANGED <<connection, arg, conn, sent, op, result, log, entryConn>>

\* connect without the "return" after a successful attempt: the loop goes on
ConnectAttemptOk_NoReturn ==
    /\ pc = "connect_attempt"
    /\ connection' = NewSocket
    /\ log' = Append(log, Ev("attempt", NewSocket, "ok"))
    /\ IF attempt < RECONNECT_ATTEMPTS - 1
       THEN /\ attempt' = attempt + 1
            /\ UNCHANGED <<pc, locked, stack, exc>>
       ELSE /\ locked' = FALSE
            /\ Return("none")
            /\ UNCHANGED attempt
    /\ UNCHANGED <<arg, conn, op, result, sent, entryConn>>

\* connect: an attempt succeeds: the socket is stored and connect returns
ConnectAttemptOk ==
    /\ pc = "connect_attempt"
    /\ connection' = NewSocket
    /\ log' = Append(log, Ev("attempt", NewSocket, "ok"))
    /\ locked' = FALSE
    /\ Return("none")
    /\ UNCHANGED <<arg, conn, attempt, sent, op, result, entryConn>>

\* connect with the last attempt tested as "attempt < RECONNECT_ATTEMPTS"
ConnectAttemptFail_OffByOne ==
    /\ pc = "connect_attempt"
    /\ \E e \in ConnectErrors :
          log' = Append(log, Ev("attempt", NewSocket, e))
    /\ IF attempt < RECONNECT_ATTEMPTS
       THEN /\ pc' = "connect_sleep"
            /\ UNCHANGED <<locked, stack, exc>>
       ELSE /\ locked' = FALSE
            /\ Return("OverlayConnectionError")
    /\ UNCHANGED <<connection, arg, conn, attempt, op, result, sent, entryConn>>

\* a connect that raises after its last attempt with the lock still held
ConnectAttemptFail_KeepLock ==
    /\ pc = "connect_attempt"
    /\ \E e \in ConnectErrors :
          log' = Append(log, Ev("attempt", NewSocket, e))
    /\ IF attempt < RECONNECT_ATTEMPTS - 1
       THEN /\ pc' = "connect_sleep"
            /\ UNCHANGED <<locked, stack, exc>>
       ELSE /\ locked' = locked
            /\ Return("OverlayConnectionError")
    /\ UNCHANGED <<connection, arg, conn, attempt, sent, op, result, entryConn>>

\* connect: an attempt fails: sleep before the next one, raise after the last
ConnectAttemptFail ==
    /\ pc = "connect_attempt"
    /\ \E e \in ConnectErrors :
          log' = Append(log, Ev("attempt", NewSocket, e))
    /\ IF attempt < RECONNECT_ATTEMPTS - 1
       THEN /\ pc' = "connect_sleep"
            /\ UNCHANGED <<locked, stack, exc>>
       ELSE /\ locked' = FALSE
            /\ Return("OverlayConnectionError")
    /\ UNCHANGED <<connection, arg, conn, attempt, sent, op, result, entryConn>>

\* connect: time.sleep(RECONNECT_DELAY), then the next iteration
ConnectSleep ==
    /\ pc = "connect_sleep"
    /\ log' = Append(log, Ev("sleep", 0, "ok"))
    /\ attempt' = attempt + 1
    /\ pc' = "connect_attempt"
    /\ UNCHANGED <<connection, locked, stack, exc, arg, conn, sent, op, result,
                   entryConn>>

\* disconnect: "with self._lock: if self.connection:"
DisconnectEnter ==
    /\ pc = "disconnect"
    /\ ~locked
    /\ IF connection = 0
       THEN /\ Return("none")
            /\ UNCHANGED locked
       ELSE /\ locked' = TRUE
            /\ pc' = "disconnect_close"
            /\ UNCHANGED <<stack, exc>>
    /\ UNCHANGED <<connection, arg, conn, attempt, sent, op, result, log, entryConn>>

\* disconnect without try/finally: an exception of close() leaves the method
\* before the connection is cleared
DisconnectClose_Propagate ==
    /\ pc = "disconnect_close"
    /\ \E how \in {"ok", "raised"} :
          /\ log' = Append(log, Ev("close", connection, how))
          /\ connection' = (IF how = "ok" THEN 0 ELSE connection)
          /\ Return(IF how = "ok" THEN "none" ELSE "OSError")
    /\ locked' = FALSE
    /\ UNCHANGED <<arg, conn, attempt, sent, op, result, entryConn>>

\* disconnect: close() returns or raises (logged), the connection is cleared
DisconnectClose ==
    /\ pc = "disconnect_close"
    /\ \E how \in {"ok", "raised"} :
          log' = Append(log, Ev("close", connection, how))
    /\ connection' = 0
    /\ locked' = FALSE
    /\ Return("none")
    /\ UNCHANGED <<arg, conn, attempt, sent, op, result, entryConn>>

\* send_raw without the isinstance(msg, dict) test
SendRawEnter_NoTypeTest ==
    /\ pc = "send_raw"
    /\ IF connection = 0
       THEN /\ Call("connect", "ctx_connected")
            /\ UNCHANGED <<exc, conn>>
       ELSE /\ conn' = connection
            /\ pc' = "send_data"
            /\ UNCHANGED <<stack, exc>>
    /\ UNCHANGED <<connection, locked, arg, attempt, sent, op, result, log, entryConn>>

\* send_raw: the isinstance test, then the context manager is entered:
\* "if not self.connection: self.connect()", "yield self.connection"
SendRawEnter ==
    /\ pc = "send_raw"
    /\ IF ~arg.isdict
       THEN /\ Return("ValueError")
            /\ UNCHANGED conn
       ELSE IF connection = 0
       THEN /\ Call("connect", "ctx_connected")
            /\ UNCHANGED <<exc, conn>>
       ELSE /\ conn' = connection
            /\ pc' = "send_data"
            /\ UNCHANGED <<stack, exc>>
    /\ UNCHANGED <<connection, locked, arg, attempt, sent, op, result, log, entryConn>>

\* the context manager with the failure of its connect() swallowed
CtxConnected_Swallow ==
    /\ pc = "ctx_connected"
    /\ conn' = connection
    /\ exc' = "none"
    /\ pc' = "send_data"
    /\ UNCHANGED <<connection, locked, stack, arg, attempt, op, result, log, sent,
                   entryConn>>

\* the context manager after its connect(): yield the connection, or handle
\* the exception
CtxConnected ==
    /\ pc = "ctx_connected"
    /\ IF exc = "none"
       THEN /\ conn' = connection
            /\ pc' = "send_data"
       ELSE /\ pc' = "ctx_except"
            /\ UNCHANGED conn
    /\ UNCHANGED <<connection, locked, stack, exc, arg, attempt, sent, op, result, log,
                   entryConn>>

\* send_raw: conn.send(data.encode("utf-8")) takes all the bytes
SendData ==
    /\ pc = "send_data"
    /\ sent' = Append(sent, Chunk(conn, "data", JsonDumps(SanitizeMessage(arg.m)), "all"))
    /\ log' = Append(log, Ev("send_data", conn, "ok"))
    /\ pc' = "send_newline"
    /\ UNCHANGED <<connection, locked, stack, exc, arg, conn, attempt, op, result,
                   entryConn>>

\* send_raw: conn.send(data.encode("utf-8")) takes only some of the bytes and
\* returns their number, which the code does not look at
SendDataShort ==
    /\ pc = "send_data"
    /\ sent' = Append(sent, Chunk(conn, "data", JsonDumps(SanitizeMessage(arg.m)), "part"))
    /\ log' = Append(log, Ev("send_data", conn, "short"))
    /\ pc' = "send_newline"
    /\ UNCHANGED <<connection, locked, stack, exc, arg, conn, attempt, op, result,
                   entryConn>>

\* send_raw: conn.send(b"\n"); the with block ends and send_raw returns
SendNewline ==
    /\ pc = "send_newline"
    /\ sent' = Append(sent, Chunk(conn, "newline", <<>>, "all"))
    /\ log' = Append(log, Ev("send_newline", conn, "ok"))
    /\ Return("none")
    /\ UNCHANGED <<connection, locked, arg, conn, attempt, op, result, entryConn>>

\* send_raw: either conn.send raises; the context manager catches it
SendFail ==
    /\ pc \in {"send_data", "send_newline"}
    /\ \E e \in SendErrors : exc' = e
    /\ log' = Append(log, Ev(pc, conn, "raised"))
    /\ pc' = "ctx_except"
    /\ UNCHANGED <<connection, locked, stack, arg, conn, attempt, sent, op, result,
                   entryConn>>

\* the context manager's handler without its self.disconnect()
CtxExcept_NoDisconnect ==
    /\ pc = "ctx_except"
    /\ pc' = "ctx_raise"
    /\ UNCHANGED <<connection, locked, stack, exc, arg, conn, attempt, op, result, log,
                   sent, entryConn>>

\* the context manager: "except Exception as e: self.disconnect()"
CtxExcept ==
    /\ pc = "ctx_except"
    /\ Call("disconnect", "ctx_raise")
    /\ UNCHANGED <<connection, locked, exc, arg, conn, attempt, sent, op, result, log,
                   entryConn>>

\* send_raw's handlers: BrokenPipeError and ConnectionResetError disconnect
\* and raise OverlayConnectionError, any other exception is logged and raised
\* again
SendRawExcept ==
    /\ pc = "send_raw_except"
    /\ IF exc \in {"BrokenPipeError", "ConnectionResetError"}
       THEN /\ Call("disconnect", "send_raw_raise")
            /\ UNCHANGED exc
       ELSE Return(exc)
    /\ UNCHANGED <<connection, locked, arg, conn, attempt, sent, op, result, log,
                   entryConn>>

\* after the disconnect() of a handler: raise OverlayConnectionError, out of
\* the context manager into send_raw's handlers, or out of send_raw
RaiseConnectionError ==
    /\ pc \in {"ctx_raise", "send_raw_raise"}
    /\ IF pc = "ctx_raise"
       THEN /\ pc' = "send_raw_except"
            /\ exc' = "OverlayConnectionError"
            /\ UNCHANGED stack
       ELSE Return("OverlayConnectionError")
    /\ UNCHANGED <<connection, locked, arg, conn, attempt, sent, op, result, log,
                   entryConn>>

Init ==
    /\ raw = <<>>
    /\ sanitized = <<>>
    /\ resanitized = <<>>
    /\ phase = "input"
    /\ CliInit
    /\ SvcInit
    /\ ThrInit
    /\ PlugInit

Next ==
    \/ (CallConnect /\ UNCHANGED <<sanVars, svcVars, thrVars, plugVars>>)
    \/ (CallDisconnect /\ UNCHANGED <<sanVars, svcVars, thrVars, plugVars>>)
    \/ (CallSendRaw /\ UNCHANGED <<sanVars, svcVars, thrVars, plugVars>>)
    \/ (ApiReturn /\ UNCHANGED <<sanVars, svcVars, thrVars, plugVars>>)
    \/ (ConnectEnter /\ UNCHANGED <<sanVars, svcVars, thrVars, plugVars>>)
    \/ (ConnectAttemptOk /\ UNCHANGED <<sanVars, svcVars, thrVars, plugVars>>)
    \/ (ConnectAttemptFail /\ UNCHANGED <<sanVars, svcVars, thrVars, plugVars>>)
    \/ (ConnectSleep /\ UNCHANGED <<sanVars, svcVars, thrVars, plugVars>>)
    \/ (DisconnectEnter /\ UNCHANGED <<sanVars, svcVars, thrVars, plugVars>>)
    \/ (DisconnectClose /\ UNCHANGED <<sanVars, svcVars, thrVars, plugVars>>)
    \/ (SendRawEnter /\ UNCHANGED <<sanVars, svcVars, thrVars, plugVars>>)
    \/ (CtxConnected /\ UNCHANGED <<sanVars, svcVars, thrVars, plugVars>>)
    \/ (SendData /\ UNCHANGED <<sanVars, svcVars, thrVars, plugVars>>)
    \/ (SendDataShort /\ UNCHANGED <<sanVars, svcVars, thrVars, plugVars>>)
    \/ (SendNewline /\ UNCHANGED <<sanVars, svcVars, thrVars, plugVars>>)
    \/ (SendFail /\ UNCHANGED <<sanVars, svcVars, thrVars, plugVars>>)
    \/ (CtxExcept /\ UNCHANGED <<sanVars, svcVars, thrVars, plugVars>>)
    \/ (SendRawExcept /\ UNCHANGED <<sanVars, svcVars, thrVars, plugVars>>)
    \/ (RaiseConnectionError /\ UNCHANGED <<sanVars, svcVars, thrVars, plugVars>>)

Spec == Init /\ [][Next]_vars

-----------------------------------------------------------------------------
(* The Overlay's send operations: send_message, send_shape and              *)
(* send_command, called by one caller next to connect and disconnect.  They *)
(* run on the client machine above.  _service_manager.ensure_service() is   *)
(* one step here, which returns or raises OverlayServiceError (its own      *)
(* steps are the supervisor's, below).                                      *)

\* "ttl: int = 4" at edmcoverlay_improved.py:342
DEFAULT_TTL == 4

\* 'size: str = "normal"'
DEFAULT_SIZE == PyStr(<<"n", "o", "r", "m", "a", "l">>)

FacadeOps == {"send_message", "send_shape", "send_command"}

\* the calls of send_message: given lists the optional arguments passed
SendMessageCalls ==
    { [msgid |-> PyStr(<<"m", "1">>), text |-> PyStr(<<"H", "i">>),
       color |-> PyStr(<<"r", "e", "d">>), x |-> PyInt(10), y |-> PyInt(20),
       ttl |-> PyInt(0), size |-> PyNone, given |-> {}],
      [msgid |-> PyInt(0), text |-> PyStr(<<".">>),
       color |-> PyStr(<<"b", "l", "a", "c", "k">>), x |-> PyInt(0), y |-> PyInt(0),
       ttl |-> PyInt(1), size |-> PyNone, given |-> {"ttl"}],
      [msgid |-> PyStr(<<"m", "2">>), text |-> PyStr(Chars(MAX_TEXT_LEN + 1, "A", "B")),
       color |-> PyStr(<<"r", "e", "d">>), x |-> PyFloat(15), y |-> PyBool(1),
       ttl |-> PyInt(9), size |-> PyStr(<<"l", "a", "r", "g", "e">>),
       given |-> {"ttl", "size"}],
      [msgid |-> PyStr(<<"m", "3">>), text |-> PyStr(<<"H", "i">>),
       color |-> PyStr(<<"r", "e", "d">>), x |-> PyStr(<<"1", "0">>), y |-> PyInt(20),
       ttl |-> PyInt(9), size |-> PyNone, given |-> {"ttl"}],
      [msgid |-> PyStr(Chars(MAX_TEXT_LEN + 1, "A", "B")), text |-> PyStr(<<"H", "i">>),
       color |-> PyStr(<<"r", "e", "d">>), x |-> PyInt(10), y |-> PyInt(20),
       ttl |-> PyInt(0), size |-> PyNone, given |-> {}] }

\* the calls of send_shape
SendShapeCalls ==
    { [shapeid |-> PyStr(<<"s", "1">>), shape |-> PyStr(<<"r", "e", "c", "t">>),
       color |-> PyStr(<<"r", "e", "d">>), fill |-> PyStr(<<"b", "l", "u", "e">>),
       x |-> PyInt(1), y |-> PyInt(2), w |-> PyInt(3), h |-> PyInt(4),
       ttl |-> PyInt(5)] }

\* the calls of send_command
SendCommandCalls == { [command |-> PyStr(<<"e", "x", "i", "t">>)] }

\* the message of send_message without its size entry
send_message_msg_NoSize(a) ==
    [id    |-> a.msgid,
     color |-> a.color,
     text  |-> a.text,
     x     |-> a.x,
     y     |-> a.y,
     ttl   |-> IF "ttl" \in a.given THEN a.ttl ELSE PyInt(DEFAULT_TTL)]

\* send_message: msg = {"id": msgid, "color": color, "text": text, ...}
send_message_msg(a) ==
    [id    |-> a.msgid,
     color |-> a.color,
     text  |-> a.text,
     size  |-> IF "size" \in a.given THEN a.size ELSE DEFAULT_SIZE,
     x     |-> a.x,
     y     |-> a.y,
     ttl   |-> IF "ttl" \in a.given THEN a.ttl ELSE PyInt(DEFAULT_TTL)]

\* send_shape: msg = {"id": shapeid, "shape": shape, ...}
send_shape_msg(a) ==
    [id |-> a.shapeid, shape |-> a.shape, color |-> a.color, fill |-> a.fill,
     x |-> a.x, y |-> a.y, w |-> a.w, h |-> a.h, ttl |-> a.ttl]

\* send_command: msg = {"command": command}
send_command_msg(a) == [command |-> a.command]

\* the msg the send operation in progress builds
BuiltMessage ==
    CASE call.fn = "send_message" -> send_message_msg(call.args)
      [] call.fn = "send_shape" -> send_shape_msg(call.args)
      [] OTHER -> send_command_msg(call.args)

\* the caller calls a send operation
FacadeBegin(name, a) ==
    /\ Begin(name)
    /\ call' = [fn |-> name, args |-> a, made |-> <<>>]
    /\ UNCHANGED arg
    /\ UNCHANGED <<other, sthr, orphan, extVars>>

CallSendMessage == \E a \in SendMessageCalls : FacadeBegin("send_message", a)

CallSendShape == \E a \in SendShapeCalls : FacadeBegin("send_shape", a)

CallSendCommand == \E a \in SendCommandCalls : FacadeBegin("send_command", a)

\* a send operation that ensures the service and connects whatever
\* self.connection is
FacadeEnter_Always ==
    /\ pc \in FacadeOps
    /\ pc' = "facade_ensure"
    /\ UNCHANGED <<connection, locked, stack, exc, arg, conn, attempt, op, result, log,
                   sent, entryConn>>
    /\ UNCHANGED plugVars

\* a send operation: "if not self.connection:"
FacadeEnter ==
    /\ pc \in FacadeOps
    /\ pc' = (IF connection = 0 THEN "facade_ensure" ELSE "facade_send")
    /\ UNCHANGED <<connection, locked, stack, exc, arg, conn, attempt, op, result, log,
                   sent, entryConn>>
    /\ UNCHANGED plugVars

\* a send operation that goes on when ensure_service raises
FacadeEnsure_Swallow ==
    /\ pc = "facade_ensure"
    /\ call' = [call EXCEPT !.made = Append(@, "ensure_service")]
    /\ pc' = "facade_connect"
    /\ UNCHANGED <<stack, exc>>
    /\ UNCHANGED <<connection, locked, arg, conn, attempt, op, result, log, sent,
                   entryConn>>
    /\ UNCHANGED <<other, sthr, orphan, extVars>>

\* a send operation: "_service_manager.ensure_service(self.args)" returns, or
\* raises OverlayServiceError, which leaves the send operation
FacadeEnsure ==
    /\ pc = "facade_ensure"
    /\ call' = [call EXCEPT !.made = Append(@, "ensure_service")]
    /\ \/ /\ pc' = "facade_connect"
          /\ UNCHANGED <<stack, exc>>
       \/ Return("OverlayServiceError")
    /\ UNCHANGED <<connection, locked, arg, conn, attempt, op, result, log, sent,
                   entryConn>>
    /\ UNCHANGED <<other, sthr, orphan, extVars>>

\* a send operation: "self.connect()"
FacadeConnect ==
    /\ pc = "facade_connect"
    /\ call' = [call EXCEPT !.made = Append(@, "connect")]
    /\ Call("connect", "facade_connected")
    /\ UNCHANGED <<connection, locked, exc, arg, conn, attempt, op, result, log, sent,
                   entryConn>>
    /\ UNCHANGED <<other, sthr, orphan, extVars>>

\* a send operation after its connect(): go on, or let the exception out
FacadeConnected ==
    /\ pc = "facade_connected"
    /\ IF exc = "none"
       THEN /\ pc' = "facade_send"
            /\ UNCHANGED <<stack, exc>>
       ELSE Return(exc)
    /\ UNCHANGED <<connection, locked, arg, conn, attempt, op, result, log, sent,
                   entryConn>>
    /\ UNCHANGED plugVars

\* a send operation: "msg = {...}" and "self.send_raw(msg)"
FacadeSend ==
    /\ pc = "facade_send"
    /\ arg' = [isdict |-> TRUE, m |-> BuiltMessage]
    /\ call' = [call EXCEPT !.made = Append(@, "send_raw")]
    /\ Call("send_raw", "facade_sent")
    /\ UNCHANGED <<connection, locked, exc, conn, attempt, op, result, log, sent,
                   entryConn>>
    /\ UNCHANGED <<other, sthr, orphan, extVars>>

\* a send operation after its send_raw(): return, or let the exception out
FacadeSent ==
    /\ pc = "facade_sent"
    /\ Return(exc)
    /\ UNCHANGED <<connection, locked, arg, conn, attempt, op, result, log, sent,
                   entryConn>>
    /\ UNCHANGED plugVars

FacadeNext ==
    \/ (CallConnect /\ UNCHANGED <<sanVars, svcVars, thrVars, plugVars>>)
    \/ (CallDisconnect /\ UNCHANGED <<sanVars, svcVars, thrVars, plugVars>>)
    \/ (CallSendRaw /\ UNCHANGED <<sanVars, svcVars, thrVars, plugVars>>)
    \/ (CallSendMessage /\ UNCHANGED <<sanVars, svcVars, thrVars>>)
    \/ (CallSendShape /\ UNCHANGED <<sanVars, svcVars, thrVars>>)
    \/ (CallSendCommand /\ UNCHANGED <<sanVars, svcVars, thrVars>>)
    \/ (FacadeEnter /\ UNCHANGED <<sanVars, svcVars, thrVars>>)
    \/ (FacadeEnsure /\ UNCHANGED <<sanVars, svcVars, thrVars>>)
    \/ (FacadeConnect /\ UNCHANGED <<sanVars, svcVars, thrVars>>)
    \/ (FacadeConnected /\ UNCHANGED <<sanVars, svcVars, thrVars>>)
    \/ (FacadeSend /\ UNCHANGED <<sanVars, svcVars, thrVars>>)
    \/ (FacadeSent /\ UNCHANGED <<sanVars, svcVars, thrVars>>)
    \/ (ApiReturn /\ UNCHANGED <<sanVars, svcVars, thrVars, plugVars>>)
    \/ (ConnectEnter /\ UNCHANGED <<sanVars, svcVars, thrVars, plugVars>>)
    \/ (ConnectAttemptOk /\ UNCHANGED <<sanVars, svcVars, thrVars, plugVars>>)
    \/ (ConnectAttemptFail /\ UNCHANGED <<sanVars, svcVars, thrVars, plugVars>>)
    \/ (ConnectSleep /\ UNCHANGED <<sanVars, svcVars, thrVars, plugVars>>)
    \/ (DisconnectEnter /\ UNCHANGED <<sanVars, svcVars, thrVars, plugVars>>)
    \/ (DisconnectClose /\ UNCHANGED <<sanVars, svcVars, thrVars, plugVars>>)
    \/ (SendRawEnter /\ UNCHANGED <<sanVars, svcVars, thrVars, plugVars>>)
    \/ (CtxConnected /\ UNCHANGED <<sanVars, svcVars, thrVars, plugVars>>)
    \/ (SendData /\ UNCHANGED <<sanVars, svcVars, thrVars, plugVars>>)
    \/ (SendDataShort /\ UNCHANGED <<sanVars, svcVars, thrVars, plugVars>>)
    \/ (SendNewline /\ UNCHANGED <<sanVars, svcVars, thrVars, plugVars>>)
    \/ (SendFail /\ UNCHANGED <<sanVars, svcVars, thrVars, plugVars>>)
    \/ (CtxExcept /\ UNCHANGED <<sanVars, svcVars, thrVars, plugVars>>)
    \/ (SendRawExcept /\ UNCHANGED <<sanVars, svcVars, thrVars, plugVars>>)
    \/ (RaiseConnectionError /\ UNCHANGED <<sanVars, svcVars, thrVars, plugVars>>)

SpecFacade == Init /\ [][FacadeNext]_vars

-----------------------------------------------------------------------------
(* A caller that keeps calling send_message, and an endpoint that from some  *)
(* moment on accepts every connection and every write.  From that moment no  *)
(* connection attempt and no send fails, and ensure_service returns: its     *)
(* probe connects and sends.                                                 *)

\* environment: the endpoint has come up for good
EndpointRecovers ==
    /\ ~endpoint_up
    /\ endpoint_up' = TRUE
    /\ UNCHANGED <<sanVars, cliVars, svcVars, thrVars, other, sthr, call, orphan, hook,
                   heap, configs, legacy>>

\* a step of the caller or of the client
RetryStep ==
    \/ (CallSendMessage /\ UNCHANGED <<sanVars, svcVars, thrVars>>)
    \/ (FacadeEnter /\ UNCHANGED <<sanVars, svcVars, thrVars>>)
    \/ (FacadeEnsure /\ (endpoint_up => pc' = "facade_connect")
                     /\ UNCHANGED <<sanVars, svcVars, thrVars>>)
    \/ (FacadeConnect /\ UNCHANGED <<sanVars, svcVars, thrVars>>)
    \/ (FacadeConnected /\ UNCHANGED <<sanVars, svcVars, thrVars>>)
    \/ (FacadeSend /\ UNCHANGED <<sanVars, svcVars, thrVars>>)
    \/ (FacadeSent /\ UNCHANGED <<sanVars, svcVars, thrVars>>)
    \/ (ApiReturn /\ UNCHANGED <<sanVars, svcVars, thrVars, plugVars>>)
    \/ (ConnectEnter /\ UNCHANGED <<sanVars, svcVars, thrVars, plugVars>>)
    \/ (ConnectAttemptOk /\ UNCHANGED <<sanVars, svcVars, thrVars, plugVars>>)
    \/ (ConnectAttemptFail /\ ~endpoint_up /\ UNCHANGED <<sanVars, svcVars, thrVars, plugVars>>)
    \/ (ConnectSleep /\ UNCHANGED <<sanVars, svcVars, thrVars, plugVars>>)
    \/ (DisconnectEnter /\ UNCHANGED <<sanVars, svcVars, thrVars, plugVars>>)
    \/ (DisconnectClose /\ UNCHANGED <<sanVars, svcVars, thrVars, plugVars>>)
    \/ (SendRawEnter /\ UNCHANGED <<sanVars, svcVars, thrVars, plugVars>>)
    \/ (SendData /\ UNCHANGED <<sanVars, svcVars, thrVars, plugVars>>)
    \/ (SendDataShort /\ UNCHANGED <<sanVars, svcVars, thrVars, plugVars>>)
    \/ (SendNewline /\ UNCHANGED <<sanVars, svcVars, thrVars, plugVars>>)
    \/ (SendFail /\ ~endpoint_up /\ UNCHANGED <<sanVars, svcVars, thrVars, plugVars>>)
    \/ (CtxExcept /\ UNCHANGED <<sanVars, svcVars, thrVars, plugVars>>)
    \/ (SendRawExcept /\ UNCHANGED <<sanVars, svcVars, thrVars, plugVars>>)
    \/ (RaiseConnectionError /\ UNCHANGED <<sanVars, svcVars, thrVars, plugVars>>)

RetryNext == RetryStep \/ EndpointRecovers

\* the client's steps are taken, and the caller calls again whenever a call
\* has ended; nothing obliges the endpoint to come up
SpecRetry == Init /\ [][RetryNext]_vars /\ WF_vars(RetryStep)

-----------------------------------------------------------------------------
(* ServiceManager.is_service_alive, step by step on the client machine: the *)
(* client variables are those of test_overlay, the Overlay the probe makes. *)

\* the arguments of test_overlay.send_message(0, ".", "black", 0, 0, 1)
AliveCall ==
    [msgid |-> PyInt(0), text |-> PyStr(<<".">>),
     color |-> PyStr(<<"b", "l", "a", "c", "k">>), x |-> PyInt(0), y |-> PyInt(0),
     ttl |-> PyInt(1), size |-> PyNone, given |-> {"ttl"}]

\* is_service_alive is called: "test_overlay = Overlay()", a new client
AliveBegin ==
    /\ Begin("is_service_alive")
    /\ connection' = 0
    /\ locked' = FALSE
    /\ call' = NoCall
    /\ UNCHANGED <<arg, exc>>
    /\ UNCHANGED <<other, sthr, orphan, extVars>>

\* "test_overlay.connect()"
AliveConnect ==
    /\ pc = "is_service_alive"
    /\ Call("connect", "alive_connected")
    /\ UNCHANGED <<connection, locked, exc, arg, conn, attempt, op, result, log, sent,
                   entryConn>>
    /\ UNCHANGED plugVars

\* after connect(): "test_overlay.send_message(0, ".", "black", 0, 0, 1)", or
\* the exception goes to "except Exception"
AliveConnected ==
    /\ pc = "alive_connected"
    /\ IF exc = "none"
       THEN /\ call' = [fn |-> "send_message", args |-> AliveCall, made |-> <<>>]
            /\ Call("send_message", "alive_sent")
       ELSE /\ pc' = "alive_except"
            /\ UNCHANGED <<stack, call>>
    /\ UNCHANGED <<connection, locked, exc, arg, conn, attempt, op, result, log, sent,
                   entryConn>>
    /\ UNCHANGED <<other, sthr, orphan, extVars>>

\* an is_service_alive that returns True without test_overlay.disconnect()
AliveSent_NoDisconnect ==
    /\ pc = "alive_sent"
    /\ pc' = (IF exc = "none" THEN "alive_disconnected" ELSE "alive_except")
    /\ UNCHANGED <<connection, locked, stack, exc, arg, conn, attempt, op, result, log,
                   sent, entryConn>>
    /\ UNCHANGED plugVars

\* after send_message(): "test_overlay.disconnect()", or the exception goes to
\* "except Exception"
AliveSent ==
    /\ pc = "alive_sent"
    /\ IF exc = "none"
       THEN Call("disconnect", "alive_disconnected")
       ELSE pc' = "alive_except" /\ UNCHANGED stack
    /\ UNCHANGED <<connection, locked, exc, arg, conn, attempt, op, result, log, sent,
                   entryConn>>
    /\ UNCHANGED plugVars

\* after disconnect(): "return True"
AliveReturnTrue ==
    /\ pc = "alive_disconnected"
    /\ IF exc = "none"
       THEN /\ result' = "True"
            /\ pc' = "idle"
            /\ stack' = <<>>
       ELSE /\ pc' = "alive_except"
            /\ UNCHANGED <<result, stack>>
    /\ UNCHANGED <<connection, locked, exc, arg, conn, attempt, op, log, sent,
                   entryConn>>
    /\ UNCHANGED plugVars

\* "except Exception: return False"
AliveExcept ==
    /\ pc = "alive_except"
    /\ result' = "False"
    /\ exc' = "none"
    /\ pc' = "idle"
    /\ stack' = <<>>
    /\ UNCHANGED <<connection, locked, arg, conn, attempt, op, log, sent, entryConn>>
    /\ UNCHANGED plugVars

AliveNext ==
    \/ (AliveBegin /\ UNCHANGED <<sanVars, svcVars, thrVars>>)
    \/ (AliveConnect /\ UNCHANGED <<sanVars, svcVars, thrVars>>)
    \/ (AliveConnected /\ UNCHANGED <<sanVars, svcVars, thrVars>>)
    \/ (AliveSent /\ UNCHANGED <<sanVars, svcVars, thrVars>>)
    \/ (AliveReturnTrue /\ UNCHANGED <<sanVars, svcVars, thrVars>>)
    \/ (AliveExcept /\ UNCHANGED <<sanVars, svcVars, thrVars>>)
    \/ (FacadeEnter /\ UNCHANGED <<sanVars, svcVars, thrVars>>)
    \/ (FacadeSend /\ UNCHANGED <<sanVars, svcVars, thrVars>>)
    \/ (FacadeSent /\ UNCHANGED <<sanVars, svcVars, thrVars>>)
    \/ (ConnectEnter /\ UNCHANGED <<sanVars, svcVars, thrVars, plugVars>>)
    \/ (ConnectAttemptOk /\ UNCHANGED <<sanVars, svcVars, thrVars, plugVars>>)
    \/ (ConnectAttemptFail /\ UNCHANGED <<sanVars, svcVars, thrVars, plugVars>>)
    \/ (ConnectSleep /\ UNCHANGED <<sanVars, svcVars, thrVars, plugVars>>)
    \/ (DisconnectEnter /\ UNCHANGED <<sanVars, svcVars, thrVars, plugVars>>)
    \/ (DisconnectClose /\ UNCHANGED <<sanVars, svcVars, thrVars, plugVars>>)
    \/ (SendRawEnter /\ UNCHANGED <<sanVars, svcVars, thrVars, plugVars>>)
    \/ (SendData /\ UNCHANGED <<sanVars, svcVars, thrVars, plugVars>>)
    \/ (SendDataShort /\ UNCHANGED <<sanVars, svcVars, thrVars, plugVars>>)
    \/ (SendNewline /\ UNCHANGED <<sanVars, svcVars, thrVars, plugVars>>)
    \/ (SendFail /\ UNCHANGED <<sanVars, svcVars, thrVars, plugVars>>)
    \/ (CtxExcept /\ UNCHANGED <<sanVars, svcVars, thrVars, plugVars>>)
    \/ (SendRawExcept /\ UNCHANGED <<sanVars, svcVars, thrVars, plugVars>>)
    \/ (RaiseConnectionError /\ UNCHANGED <<sanVars, svcVars, thrVars, plugVars>>)

SpecAlive == Init /\ [][AliveNext]_vars

-----------------------------------------------------------------------------
(* ServiceManager: ensure_service, is_service_alive and stop_service, run   *)
(* by one caller.  The environment (the host application, the filesystem,   *)
(* the child process) moves between any two steps.                          *)

\* check_game_running(): True when there is no monitor module
check_game_running == IF ~monitor THEN TRUE ELSE game

YesNo(b) == IF b THEN "yes" ELSE "no"

\* a scan that falls back to the first location when no location holds the file
FirstHeld_Fallback(files) ==
    IF \E i \in DOMAIN locations : locations[i] \in files
    THEN locations[CHOOSE i \in DOMAIN locations :
                      /\ locations[i] \in files
                      /\ \A j \in 1..(i - 1) : locations[j] \notin files]
    ELSE locations[1]

\* the first candidate location, in order, for which os.path.isfile is true
FirstHeld(files) ==
    IF \E i \in DOMAIN locations : locations[i] \in files
    THEN locations[CHOOSE i \in DOMAIN locations :
                      /\ locations[i] \in files
                      /\ \A j \in 1..(i - 1) : locations[j] \notin files]
    ELSE "None"

\* a find_server_program that scans the locations on every call
find_server_program_Rescan(cached, files) == FirstHeld(files)

\* find_server_program(): the cached path if there is one, else the scan
find_server_program(cached, files) ==
    IF cached # "None" THEN cached ELSE FirstHeld(files)

\* stderr.decode("utf-8", errors="ignore"): the invalid bytes are dropped
Decode(bytes) == SelectSeq(bytes, LAMBDA b : b # "\\xff")

\* error_msg without the stderr part
ExitMessage_NoStderr(prog, c) == <<prog, " exited with code ", ToString(c.code)>>

\* error_msg of lines 162-168
ExitMessage(prog, c) ==
    <<prog, " exited with code ", ToString(c.code)>>
        \o (IF c.stderr # <<>> THEN <<", stderr: ">> \o Decode(c.stderr) ELSE <<>>)

\* a public operation of the supervisor is called
SvcBegin(name, label) ==
    /\ spc = "idle"
    /\ sop' = name
    /\ spc' = label
    /\ sresult' = NoExc
    /\ slog' = <<>>
    /\ program' = "None"
    /\ err' = NoExc
    /\ entryService' = service
    /\ entryPath' = program_path
    /\ fsAtFind' = {}
    /\ UNCHANGED <<monitor, game, fs, service, child, program_path, service_lock,
                   probe, alive>>

CallEnsureService == SvcBegin("ensure_service", "es_check_game")

CallIsServiceAlive == SvcBegin("is_service_alive", "probe_connect")

CallStopService == SvcBegin("stop_service", "stop")

CallFindServerProgram == SvcBegin("find_server_program", "es_find")

\* the operation returns (e = Ok) or raises e to its caller
SvcReturn(e) ==
    /\ spc' = "idle"
    /\ sresult' = e

\* ensure_service without the test of check_game_running() at entry
EsCheckGame_NoTest ==
    /\ spc = "es_check_game"
    /\ slog' = Append(slog, Step("game_running", 0, "", YesNo(check_game_running)))
    /\ spc' = "es_lock"
    /\ UNCHANGED <<monitor, game, fs, service, child, program_path, service_lock, sop,
                   program, err, probe, alive, sresult, entryService, entryPath, fsAtFind>>

\* ensure_service: "if not self.check_game_running(): return"
EsCheckGame ==
    /\ spc = "es_check_game"
    /\ slog' = Append(slog, Step("game_running", 0, "", YesNo(check_game_running)))
    /\ IF check_game_running
       THEN spc' = "es_lock" /\ UNCHANGED sresult
       ELSE SvcReturn(Ok)
    /\ UNCHANGED <<monitor, game, fs, service, child, program_path, service_lock, sop,
                   program, err, probe, alive, entryService, entryPath, fsAtFind>>

\* ensure_service entering its body without waiting for the lock
EsLock_NoLock ==
    /\ spc = "es_lock"
    /\ service_lock' = TRUE
    /\ spc' = "probe_connect"
    /\ UNCHANGED <<monitor, game, fs, service, child, program_path, sop, program, err,
                   probe, alive, sresult, slog, entryService, entryPath, fsAtFind>>

\* ensure_service: "with self._lock:", then is_service_alive() is called
EsLock ==
    /\ spc = "es_lock"
    /\ ~service_lock
    /\ service_lock' = TRUE
    /\ spc' = "probe_connect"
    /\ UNCHANGED <<monitor, game, fs, service, child, program_path, sop, program, err,
                   probe, alive, sresult, slog, entryService, entryPath, fsAtFind>>

\* an ensure_service that goes on to the search whatever is_service_alive returns
ProbeResult_Ignored(val) ==
    /\ alive' = val
    /\ IF sop = "is_service_alive"
       THEN SvcReturn(Ok) /\ UNCHANGED service_lock
       ELSE spc' = "es_find" /\ UNCHANGED <<sresult, service_lock>>

\* is_service_alive returns val; in ensure_service "if self.is_service_alive():
\* return" follows, which leaves the with block
ProbeResult(val) ==
    /\ alive' = val
    /\ IF sop = "is_service_alive"
       THEN SvcReturn(Ok) /\ UNCHANGED service_lock
       ELSE IF val
            THEN SvcReturn(Ok) /\ service_lock' = FALSE
            ELSE spc' = "es_find" /\ UNCHANGED <<sresult, service_lock>>

\* is_service_alive: test_overlay.connect() succeeds
ProbeConnectOk ==
    /\ spc = "probe_connect"
    /\ slog' = Append(slog, Step("probe_connect", 0, "", "ok"))
    /\ probe' = TRUE
    /\ spc' = "probe_send"
    /\ UNCHANGED <<monitor, game, fs, service, child, program_path, service_lock, sop,
                   program, err, alive, sresult, entryService, entryPath, fsAtFind>>

\* is_service_alive: test_overlay.connect() raises after its attempts
ProbeConnectFail ==
    /\ spc = "probe_connect"
    /\ slog' = Append(slog, Step("probe_connect", 0, "", "failed"))
    /\ ProbeResult(FALSE)
    /\ UNCHANGED <<monitor, game, fs, service, child, program_path, sop, program, err,
                   probe, entryService, entryPath, fsAtFind>>

\* is_service_alive: test_overlay.send_message(0, ".", "black", 0, 0, 1) returns
ProbeSendOk ==
    /\ spc = "probe_send"
    /\ slog' = Append(slog, Step("probe_send", 0, "", "ok"))
    /\ spc' = "probe_disconnect"
    /\ UNCHANGED <<monitor, game, fs, service, child, program_path, service_lock, sop,
                   program, err, probe, alive, sresult, entryService, entryPath,
                   fsAtFind>>

\* is_service_alive: the send raises; the context manager of send_raw has
\* closed the probe connection before the exception arrives
ProbeSendFail ==
    /\ spc = "probe_send"
    /\ slog' = slog \o << Step("probe_send", 0, "", "failed"),
                          Step("probe_close", 0, "", "ok") >>
    /\ probe' = FALSE
    /\ ProbeResult(FALSE)
    /\ UNCHANGED <<monitor, game, fs, service, child, program_path, sop, program, err,
                   entryService, entryPath, fsAtFind>>

\* is_service_alive: test_overlay.disconnect(), then "return True"
ProbeDisconnect ==
    /\ spc = "probe_disconnect"
    /\ \E how \in {"ok", "raised"} :
          slog' = Append(slog, Step("probe_close", 0, "", how))
    /\ probe' = FALSE
    /\ ProbeResult(TRUE)
    /\ UNCHANGED <<monitor, game, fs, service, child, program_path, sop, program, err,
                   entryService, entryPath, fsAtFind>>

\* find_server_program(), called by itself (its value is left in program) or
\* by ensure_service: "program = self.find_server_program()" and
\* "if not program: raise OverlayServiceError(...)"
EsFind ==
    /\ spc = "es_find"
    /\ LET found == find_server_program(program_path, fs)
       IN /\ program' = found
          /\ program_path' = found
          /\ slog' = Append(slog, Step("find", 0, found,
                               IF program_path # "None" THEN "cached"
                               ELSE IF found # "None" THEN "found" ELSE "missing"))
          /\ IF sop = "find_server_program"
             THEN /\ SvcReturn(Ok)
                  /\ UNCHANGED service_lock
             ELSE IF found = "None"
             THEN /\ SvcReturn(Exc("OverlayServiceError", <<"EDMCOverlay.exe not found">>))
                  /\ service_lock' = FALSE
             ELSE /\ spc' = "es_poll"
                  /\ UNCHANGED <<sresult, service_lock>>
    /\ fsAtFind' = fs
    /\ UNCHANGED <<monitor, game, fs, service, child, sop, err, probe, alive,
                   entryService, entryPath>>

\* an ensure_service that goes on to the launch whatever poll() returns
EsPoll_NoTest ==
    /\ spc = "es_poll"
    /\ slog' = Append(slog, Step("poll", service, "",
                         IF service = 0 THEN "none"
                         ELSE IF child.alive THEN "running" ELSE "exited"))
    /\ spc' = "es_check_game2"
    /\ UNCHANGED <<sresult, service_lock>>
    /\ UNCHANGED <<monitor, game, fs, service, child, program_path, sop, program, err,
                   probe, alive, entryService, entryPath, fsAtFind>>

\* ensure_service: "if self._service and self._service.poll() is None: return"
EsPoll ==
    /\ spc = "es_poll"
    /\ slog' = Append(slog, Step("poll", service, "",
                         IF service = 0 THEN "none"
                         ELSE IF child.alive THEN "running" ELSE "exited"))
    /\ IF service # 0 /\ child.alive
       THEN SvcReturn(Ok) /\ service_lock' = FALSE
       ELSE spc' = "es_check_game2" /\ UNCHANGED <<sresult, service_lock>>
    /\ UNCHANGED <<monitor, game, fs, service, child, program_path, sop, program, err,
                   probe, alive, entryService, entryPath, fsAtFind>>

\* ensure_service: "if self.check_game_running():" before the launch
EsCheckGame2 ==
    /\ spc = "es_check_game2"
    /\ slog' = Append(slog, Step("game_running", 0, "", YesNo(check_game_running)))
    /\ IF check_game_running
       THEN spc' = "es_popen" /\ UNCHANGED <<sresult, service_lock>>
       ELSE SvcReturn(Ok) /\ service_lock' = FALSE
    /\ UNCHANGED <<monitor, game, fs, service, child, program_path, sop, program, err,
                   probe, alive, entryService, entryPath, fsAtFind>>

\* the process id of the next child: one the supervisor has no handle to
NewPid == CHOOSE n \in 1..3 : /\ n \notin {service, other.service}
                           /\ \A k \in 1..(n - 1) : k \in {service, other.service}

\* a launch whose Popen object is not stored in self._service
EsPopenOk_NotStored ==
    /\ spc = "es_popen"
    /\ program \in fs
    /\ slog' = Append(slog, Step("popen", NewPid, program, "ok"))
    /\ spc' = "es_sleep"
    /\ UNCHANGED <<service, child>>
    /\ UNCHANGED <<monitor, game, fs, program_path, service_lock, sop, program, err,
                   probe, alive, sresult, entryService, entryPath, fsAtFind>>

\* ensure_service: subprocess.Popen(...) starts the child
EsPopenOk ==
    /\ spc = "es_popen"
    /\ program \in fs
    /\ service' = NewPid
    /\ child' = Running
    /\ slog' = Append(slog, Step("popen", NewPid, program, "ok"))
    /\ spc' = "es_sleep"
    /\ UNCHANGED <<monitor, game, fs, program_path, service_lock, sop, program, err,
                   probe, alive, sresult, entryService, entryPath, fsAtFind>>

\* ensure_service: subprocess.Popen(...) raises (no such file, not executable)
EsPopenRaise ==
    /\ spc = "es_popen"
    /\ err' = Exc("OSError", <<"OSError">>)
    /\ slog' = Append(slog, Step("popen", 0, program, "raised"))
    /\ spc' = "es_except"
    /\ UNCHANGED <<monitor, game, fs, service, child, program_path, service_lock, sop,
                   program, probe, alive, sresult, entryService, entryPath, fsAtFind>>

\* ensure_service: time.sleep(2)
EsSleep ==
    /\ spc = "es_sleep"
    /\ slog' = Append(slog, Step("sleep", 0, "", "ok"))
    /\ spc' = "es_poll_new"
    /\ UNCHANGED <<monitor, game, fs, service, child, program_path, service_lock, sop,
                   program, err, probe, alive, sresult, entryService, entryPath,
                   fsAtFind>>

\* ensure_service: "if self._service.poll() is not None:" communicate() and
\* raise OverlayServiceError(error_msg), caught by "except Exception as err"
EsPollNew ==
    /\ spc = "es_poll_new"
    /\ slog' = Append(slog, Step("poll", service, "",
                         IF child.alive THEN "running" ELSE "exited"))
    /\ IF child.alive
       THEN /\ SvcReturn(Ok)
            /\ service_lock' = FALSE
            /\ UNCHANGED err
       ELSE /\ err' = Exc("OverlayServiceError", ExitMessage(program, child))
            /\ spc' = "es_except"
            /\ UNCHANGED <<sresult, service_lock>>
    /\ UNCHANGED <<monitor, game, fs, service, child, program_path, sop, program,
                   probe, alive, entryService, entryPath, fsAtFind>>

\* a handler that drops every exception of the launch
EsExcept_Swallow ==
    /\ spc = "es_except"
    /\ slog' = Append(slog, Step("game_running", 0, "", YesNo(check_game_running)))
    /\ SvcReturn(Ok)
    /\ service_lock' = FALSE
    /\ UNCHANGED <<monitor, game, fs, service, child, program_path, sop, program, err,
                   probe, alive, entryService, entryPath, fsAtFind>>

\* ensure_service: "except Exception as err: if self.check_game_running():
\* raise OverlayServiceError(...)"; otherwise the method ends normally
EsExcept ==
    /\ spc = "es_except"
    /\ slog' = Append(slog, Step("game_running", 0, "", YesNo(check_game_running)))
    /\ IF check_game_running
       THEN SvcReturn(Exc("OverlayServiceError",
                          <<"Failed to start overlay service: ">> \o err.msg))
       ELSE SvcReturn(Ok)
    /\ service_lock' = FALSE
    /\ UNCHANGED <<monitor, game, fs, service, child, program_path, sop, program, err,
                   probe, alive, entryService, entryPath, fsAtFind>>

\* stop_service: "with self._lock: if self._service:"
StopEnter ==
    /\ spc = "stop"
    /\ ~service_lock
    /\ IF service # 0
       THEN /\ service_lock' = TRUE
            /\ spc' = "stop_terminate"
            /\ UNCHANGED sresult
       ELSE /\ SvcReturn(Ok)
            /\ UNCHANGED service_lock
    /\ UNCHANGED <<monitor, game, fs, service, child, program_path, sop, program, err,
                   probe, alive, slog, entryService, entryPath, fsAtFind>>

\* stop_service without the "finally" clause: a raising terminate() is logged
\* and the handle stays
StopTerminate_NoFinally ==
    /\ spc = "stop_terminate"
    /\ \E how \in {"ok", "raised"} :
          /\ slog' = Append(slog, Step("terminate", service, "", how))
          /\ IF how = "ok"
             THEN /\ spc' = "stop_wait"
                  /\ UNCHANGED <<sresult, service_lock>>
             ELSE /\ SvcReturn(Ok)
                  /\ service_lock' = FALSE
    /\ UNCHANGED <<service, child, orphan>>
    /\ UNCHANGED <<monitor, game, fs, program_path, sop, program, err, probe, alive,
                   entryService, entryPath, fsAtFind>>

\* stop_service: terminate() returns, or raises: logged, "finally" clears the
\* handle, of a process that may still be running
StopTerminate ==
    /\ spc = "stop_terminate"
    /\ \E how \in {"ok", "raised"} :
          /\ slog' = Append(slog, Step("terminate", service, "", how))
          /\ IF how = "ok"
             THEN /\ spc' = "stop_wait"
                  /\ UNCHANGED <<service, child, sresult, service_lock, orphan>>
             ELSE /\ service' = 0
                  /\ child' = NoChild
                  /\ orphan' = (orphan \/ child.alive)
                  /\ SvcReturn(Ok)
                  /\ service_lock' = FALSE
    /\ UNCHANGED <<monitor, game, fs, program_path, sop, program, err, probe, alive,
                   entryService, entryPath, fsAtFind>>

\* a stop_service that kills after every wait, timed out or not
StopWait_AlwaysKill ==
    /\ spc = "stop_wait"
    /\ \E how \in {"ok"} \cup (IF child.alive THEN {"timeout"} ELSE {}) :
          slog' = Append(slog, Step("wait", service, "", how))
    /\ spc' = "stop_kill"
    /\ UNCHANGED <<service, child, sresult, service_lock>>
    /\ UNCHANGED <<monitor, game, fs, program_path, sop, program, err, probe, alive,
                   entryService, entryPath, fsAtFind>>

\* stop_service: wait(timeout=5) returns (the process has exited), or raises
\* TimeoutExpired (it has not)
StopWait ==
    /\ spc = "stop_wait"
    /\ \E how \in {"ok"} \cup (IF child.alive THEN {"timeout"} ELSE {}) :
          /\ slog' = Append(slog, Step("wait", service, "", how))
          /\ IF how = "ok"
             THEN /\ service' = 0
                  /\ child' = NoChild
                  /\ SvcReturn(Ok)
                  /\ service_lock' = FALSE
             ELSE /\ spc' = "stop_kill"
                  /\ UNCHANGED <<service, child, sresult, service_lock>>
    /\ UNCHANGED <<monitor, game, fs, program_path, sop, program, err, probe, alive,
                   entryService, entryPath, fsAtFind>>

\* stop_service: kill() in the TimeoutExpired handler returns, or raises: the
\* exception leaves the method; "finally" clears the handle in both cases
StopKill ==
    /\ spc = "stop_kill"
    /\ \E how \in {"ok", "raised"} :
          /\ slog' = Append(slog, Step("kill", service, "", how))
          /\ orphan' = (orphan \/ (how = "raised" /\ child.alive))
          /\ SvcReturn(IF how = "ok" THEN Ok ELSE Exc("OSError", <<"OSError">>))
    /\ service' = 0
    /\ child' = NoChild
    /\ service_lock' = FALSE
    /\ UNCHANGED <<monitor, game, fs, program_path, sop, program, err, probe, alive,
                   entryService, entryPath, fsAtFind>>

\* environment: the host application starts or quits
GameToggle ==
    /\ monitor
    /\ game' = ~game
    /\ UNCHANGED <<monitor, fs, service, child, program_path, service_lock, spc, sop,
                   program, err, probe, alive, sresult, slog, entryService, entryPath,
                   fsAtFind>>

\* environment: the child process exits
ChildExit ==
    /\ service # 0
    /\ child.alive
    /\ \E code \in ExitCodes, stderr \in StderrOutputs : child' = Exited(code, stderr)
    /\ UNCHANGED <<monitor, game, fs, service, program_path, service_lock, spc, sop,
                   program, err, probe, alive, sresult, slog, entryService, entryPath,
                   fsAtFind>>

\* environment: the executable is installed at, or removed from, a location
FsChange ==
    /\ \E p \in InstallPaths : fs' = (IF p \in fs THEN fs \ {p} ELSE fs \cup {p})
    /\ UNCHANGED <<monitor, game, service, child, program_path, service_lock, spc, sop,
                   program, err, probe, alive, sresult, slog, entryService, entryPath,
                   fsAtFind>>

\* environment: a child that outlived its handle exits
OrphanExit ==
    /\ orphan
    /\ orphan' = FALSE
    /\ UNCHANGED svcVars

\* the supervisor after construction; the monitor module is there or not
ServiceInit ==
    /\ raw = <<>>
    /\ sanitized = <<>>
    /\ resanitized = <<>>
    /\ phase = "input"
    /\ CliInit
    /\ ThrInit
    /\ PlugInit
    /\ monitor \in BOOLEAN
    /\ game = TRUE
    /\ fs = {}
    /\ service = 0
    /\ child = NoChild
    /\ program_path = "None"
    /\ service_lock = FALSE
    /\ spc = "idle"
    /\ sop = "none"
    /\ program = "None"
    /\ err = NoExc
    /\ probe = FALSE
    /\ alive = FALSE
    /\ sresult = NoExc
    /\ slog = <<>>
    /\ entryService = 0
    /\ entryPath = "None"
    /\ fsAtFind = {}

ServiceNext ==
    \/ (CallEnsureService /\ UNCHANGED <<sanVars, cliVars, thrVars, plugVars>>)
    \/ (CallIsServiceAlive /\ UNCHANGED <<sanVars, cliVars, thrVars, plugVars>>)
    \/ (CallStopService /\ UNCHANGED <<sanVars, cliVars, thrVars, plugVars>>)
    \/ (CallFindServerProgram /\ UNCHANGED <<sanVars, cliVars, thrVars, plugVars>>)
    \/ (EsCheckGame /\ UNCHANGED <<sanVars, cliVars, thrVars, plugVars>>)
    \/ (EsLock /\ UNCHANGED <<sanVars, cliVars, thrVars, plugVars>>)
    \/ (ProbeConnectOk /\ UNCHANGED <<sanVars, cliVars, thrVars, plugVars>>)
    \/ (ProbeConnectFail /\ UNCHANGED <<sanVars, cliVars, thrVars, plugVars>>)
    \/ (ProbeSendOk /\ UNCHANGED <<sanVars, cliVars, thrVars, plugVars>>)
    \/ (ProbeSendFail /\ UNCHANGED <<sanVars, cliVars, thrVars, plugVars>>)
    \/ (ProbeDisconnect /\ UNCHANGED <<sanVars, cliVars, thrVars, plugVars>>)
    \/ (EsFind /\ UNCHANGED <<sanVars, cliVars, thrVars, plugVars>>)
    \/ (EsPoll /\ UNCHANGED <<sanVars, cliVars, thrVars, plugVars>>)
    \/ (EsCheckGame2 /\ UNCHANGED <<sanVars, cliVars, thrVars, plugVars>>)
    \/ (EsPopenOk /\ UNCHANGED <<sanVars, cliVars, thrVars, plugVars>>)
    \/ (EsPopenRaise /\ UNCHANGED <<sanVars, cliVars, thrVars, plugVars>>)
    \/ (EsSleep /\ UNCHANGED <<sanVars, cliVars, thrVars, plugVars>>)
    \/ (EsPollNew /\ UNCHANGED <<sanVars, cliVars, thrVars, plugVars>>)
    \/ (EsExcept /\ UNCHANGED <<sanVars, cliVars, thrVars, plugVars>>)
    \/ (StopEnter /\ UNCHANGED <<sanVars, cliVars, thrVars, plugVars>>)
    \/ (StopTerminate /\ UNCHANGED <<sanVars, cliVars, thrVars, other, sthr, call, extVars>>)
    \/ (StopWait /\ UNCHANGED <<sanVars, cliVars, thrVars, plugVars>>)
    \/ (StopKill /\ UNCHANGED <<sanVars, cliVars, thrVars, other, sthr, call, extVars>>)
    \/ (GameToggle /\ UNCHANGED <<sanVars, cliVars, thrVars, plugVars>>)
    \/ (ChildExit /\ UNCHANGED <<sanVars, cliVars, thrVars, plugVars>>)
    \/ (FsChange /\ UNCHANGED <<sanVars, cliVars, thrVars, plugVars>>)
    \/ (OrphanExit /\ UNCHANGED <<sanVars, cliVars, thrVars, other, sthr, call, extVars>>)

SpecService == ServiceInit /\ [][ServiceNext]_vars

-----------------------------------------------------------------------------
(* The plugin holds two ServiceManager instances: load.py creates one       *)
(* (service_manager, called by plugin_start, journal_entry and plugin_stop) *)
(* and edmcoverlay_improved.py another (_service_manager, called by the     *)
(* Overlay's send operations).  The supervisor variables service, child and *)
(* program_path are the fields of the instance being called, other holds    *)
(* those of the instance that is not.  One caller calls them in turn.       *)

\* the fields of the instance being called
Manager == [service |-> service, child |-> child, program_path |-> program_path]

\* the caller turns from one ServiceManager instance to the other, between
\* two operations: plugin_start calls service_manager.ensure_service() and
\* then client.send_message(), which calls _service_manager.ensure_service()
SwitchManager ==
    /\ spc = "idle"
    /\ ~service_lock
    /\ other' = Manager
    /\ service' = other.service
    /\ child' = other.child
    /\ program_path' = other.program_path
    /\ UNCHANGED <<monitor, game, fs, service_lock, spc, sop, program, err, probe,
                   alive, sresult, slog, entryService, entryPath, fsAtFind>>
    /\ UNCHANGED <<sthr, call, orphan, extVars>>

\* the launches of the two instances, in an environment where the host
\* application cannot be observed (Init: monitor = None)
ManagersNext ==
    \/ (CallEnsureService /\ UNCHANGED <<sanVars, cliVars, thrVars, plugVars>>)
    \/ (EsCheckGame /\ UNCHANGED <<sanVars, cliVars, thrVars, plugVars>>)
    \/ (EsLock /\ UNCHANGED <<sanVars, cliVars, thrVars, plugVars>>)
    \/ (ProbeConnectOk /\ UNCHANGED <<sanVars, cliVars, thrVars, plugVars>>)
    \/ (ProbeConnectFail /\ UNCHANGED <<sanVars, cliVars, thrVars, plugVars>>)
    \/ (ProbeSendOk /\ UNCHANGED <<sanVars, cliVars, thrVars, plugVars>>)
    \/ (ProbeSendFail /\ UNCHANGED <<sanVars, cliVars, thrVars, plugVars>>)
    \/ (ProbeDisconnect /\ UNCHANGED <<sanVars, cliVars, thrVars, plugVars>>)
    \/ (EsFind /\ UNCHANGED <<sanVars, cliVars, thrVars, plugVars>>)
    \/ (EsPoll /\ UNCHANGED <<sanVars, cliVars, thrVars, plugVars>>)
    \/ (EsCheckGame2 /\ UNCHANGED <<sanVars, cliVars, thrVars, plugVars>>)
    \/ (EsPopenOk /\ UNCHANGED <<sanVars, cliVars, thrVars, plugVars>>)
    \/ (EsPopenRaise /\ UNCHANGED <<sanVars, cliVars, thrVars, plugVars>>)
    \/ (EsSleep /\ UNCHANGED <<sanVars, cliVars, thrVars, plugVars>>)
    \/ (EsPollNew /\ UNCHANGED <<sanVars, cliVars, thrVars, plugVars>>)
    \/ (EsExcept /\ UNCHANGED <<sanVars, cliVars, thrVars, plugVars>>)
    \/ (ChildExit /\ UNCHANGED <<sanVars, cliVars, thrVars, plugVars>>)
    \/ (FsChange /\ UNCHANGED <<sanVars, cliVars, thrVars, plugVars>>)
    \/ (SwitchManager /\ UNCHANGED <<sanVars, cliVars, thrVars>>)

SpecManagers == Init /\ [][ManagersNext]_vars

-----------------------------------------------------------------------------
(* Two threads call into one ServiceManager (load.py calls it from          *)
(* plugin_start, journal_entry and plugin_stop, and the Overlay's send      *)
(* operations call it from whatever thread they run on).  Each thread has   *)
(* its position in the code; the handle, the cached path, the lock and the  *)
(* environment are shared.  The text of messages is left out.               *)

\* what the threads leave alone: the single caller's position and records
callerVars ==
    <<spc, sop, program, err, probe, alive, sresult, slog, entryService, entryPath,
      fsAtFind>>

ThGoto(t, label) == sthr' = [sthr EXCEPT ![t].pc = label]

\* the operation returns or raises to the thread that called it
ThReturn(t) == sthr' = [sthr EXCEPT ![t] = IdleCaller]

\* thread t calls ensure_service, is_service_alive or stop_service
ThCall(t, name, label) ==
    /\ sthr[t].pc = "idle"
    /\ sthr' = [sthr EXCEPT ![t] = [pc |-> label, op |-> name]]
    /\ UNCHANGED <<monitor, game, fs, service, child, program_path, service_lock>>
    /\ UNCHANGED callerVars

ThCallEnsureService(t) == ThCall(t, "ensure_service", "es_check_game")

\* journal_entry calls is_service_alive() by itself
ThCallIsServiceAlive(t) == ThCall(t, "is_service_alive", "probe_connect")

ThCallStopService(t) == ThCall(t, "stop_service", "stop")

\* ensure_service: "if not self.check_game_running(): return", before the lock
ThEsCheckGame(t) ==
    /\ sthr[t].pc = "es_check_game"
    /\ IF check_game_running THEN ThGoto(t, "es_lock") ELSE ThReturn(t)
    /\ UNCHANGED <<monitor, game, fs, service, child, program_path, service_lock>>
    /\ UNCHANGED callerVars

\* ensure_service entering its body without waiting for the lock
ThEsLock_NoLock(t) ==
    /\ sthr[t].pc = "es_lock"
    /\ service_lock' = TRUE
    /\ ThGoto(t, "probe_connect")
    /\ UNCHANGED <<monitor, game, fs, service, child, program_path>>
    /\ UNCHANGED callerVars

\* ensure_service: "with self._lock:", taken when no thread holds it
ThEsLock(t) ==
    /\ sthr[t].pc = "es_lock"
    /\ ~service_lock
    /\ service_lock' = TRUE
    /\ ThGoto(t, "probe_connect")
    /\ UNCHANGED <<monitor, game, fs, service, child, program_path>>
    /\ UNCHANGED callerVars

\* is_service_alive returns val: to the thread that called it, or to
\* ensure_service: "if self.is_service_alive(): return"
ThProbeResult(t, val) ==
    IF sthr[t].op = "is_service_alive"
    THEN ThReturn(t) /\ UNCHANGED service_lock
    ELSE IF val
         THEN ThReturn(t) /\ service_lock' = FALSE
         ELSE ThGoto(t, "es_find") /\ UNCHANGED service_lock

\* is_service_alive: test_overlay.connect() succeeds, or raises
ThProbeConnect(t) ==
    /\ sthr[t].pc = "probe_connect"
    /\ \/ ThGoto(t, "probe_send") /\ UNCHANGED service_lock
       \/ ThProbeResult(t, FALSE)
    /\ UNCHANGED <<monitor, game, fs, service, child, program_path>>
    /\ UNCHANGED callerVars

\* is_service_alive: test_overlay.send_message(...) returns, or raises
ThProbeSend(t) ==
    /\ sthr[t].pc = "probe_send"
    /\ \/ ThGoto(t, "probe_disconnect") /\ UNCHANGED service_lock
       \/ ThProbeResult(t, FALSE)
    /\ UNCHANGED <<monitor, game, fs, service, child, program_path>>
    /\ UNCHANGED callerVars

\* is_service_alive: test_overlay.disconnect(), then "return True"
ThProbeDisconnect(t) ==
    /\ sthr[t].pc = "probe_disconnect"
    /\ ThProbeResult(t, TRUE)
    /\ UNCHANGED <<monitor, game, fs, service, child, program_path>>
    /\ UNCHANGED callerVars

\* an ensure_service whose not-found error leaves the lock held
ThEsFind_KeepLock(t) ==
    /\ sthr[t].pc = "es_find"
    /\ program_path' = find_server_program(program_path, fs)
    /\ IF find_server_program(program_path, fs) = "None"
       THEN ThReturn(t)
       ELSE ThGoto(t, "es_poll")
    /\ UNCHANGED <<monitor, game, fs, service, child, service_lock>>
    /\ UNCHANGED callerVars

\* ensure_service: "program = self.find_server_program()" and
\* "if not program: raise OverlayServiceError(...)"
ThEsFind(t) ==
    /\ sthr[t].pc = "es_find"
    /\ program_path' = find_server_program(program_path, fs)
    /\ IF find_server_program(program_path, fs) = "None"
       THEN ThReturn(t) /\ service_lock' = FALSE
       ELSE ThGoto(t, "es_poll") /\ UNCHANGED service_lock
    /\ UNCHANGED <<monitor, game, fs, service, child>>
    /\ UNCHANGED callerVars

\* ensure_service: "if self._service and self._service.poll() is None: return"
ThEsPoll(t) ==
    /\ sthr[t].pc = "es_poll"
    /\ IF service # 0 /\ child.alive
       THEN ThReturn(t) /\ service_lock' = FALSE
       ELSE ThGoto(t, "es_check_game2") /\ UNCHANGED service_lock
    /\ UNCHANGED <<monitor, game, fs, service, child, program_path>>
    /\ UNCHANGED callerVars

\* ensure_service: "if self.check_game_running():" before the launch
ThEsCheckGame2(t) ==
    /\ sthr[t].pc = "es_check_game2"
    /\ IF check_game_running
       THEN ThGoto(t, "es_popen") /\ UNCHANGED service_lock
       ELSE ThReturn(t) /\ service_lock' = FALSE
    /\ UNCHANGED <<monitor, game, fs, service, child, program_path>>
    /\ UNCHANGED callerVars

\* ensure_service: "self._service = subprocess.Popen(...)" starts a child, or
\* raises
ThEsPopen(t) ==
    /\ sthr[t].pc = "es_popen"
    /\ \/ /\ service' = NewPid
          /\ child' = Running
          /\ ThGoto(t, "es_sleep")
       \/ /\ ThGoto(t, "es_except")
          /\ UNCHANGED <<service, child>>
    /\ UNCHANGED <<monitor, game, fs, program_path, service_lock>>
    /\ UNCHANGED callerVars

\* ensure_service: time.sleep(2), "if self._service.poll() is not None:" raise
ThEsPollNew(t) ==
    /\ sthr[t].pc = "es_sleep"
    /\ IF service # 0 /\ child.alive
       THEN ThReturn(t) /\ service_lock' = FALSE
       ELSE ThGoto(t, "es_except") /\ UNCHANGED service_lock
    /\ UNCHANGED <<monitor, game, fs, service, child, program_path>>
    /\ UNCHANGED callerVars

\* ensure_service: "except Exception as err:" raise OverlayServiceError, which
\* leaves the "with" block
ThEsExcept(t) ==
    /\ sthr[t].pc = "es_except"
    /\ ThReturn(t)
    /\ service_lock' = FALSE
    /\ UNCHANGED <<monitor, game, fs, service, child, program_path>>
    /\ UNCHANGED callerVars

\* stop_service: "with self._lock: if self._service:"
ThStopEnter(t) ==
    /\ sthr[t].pc = "stop"
    /\ ~service_lock
    /\ IF service # 0
       THEN ThGoto(t, "stop_terminate") /\ service_lock' = TRUE
       ELSE ThReturn(t) /\ UNCHANGED service_lock
    /\ UNCHANGED <<monitor, game, fs, service, child, program_path>>
    /\ UNCHANGED callerVars

\* stop_service: terminate() returns, or raises: "finally" clears the handle
ThStopTerminate(t) ==
    /\ sthr[t].pc = "stop_terminate"
    /\ \/ /\ ThGoto(t, "stop_wait")
          /\ UNCHANGED <<service, child, service_lock>>
       \/ /\ service' = 0
          /\ child' = NoChild
          /\ ThReturn(t)
          /\ service_lock' = FALSE
    /\ UNCHANGED <<monitor, game, fs, program_path>>
    /\ UNCHANGED callerVars

\* stop_service: wait(timeout=5) returns, or raises TimeoutExpired
ThStopWait(t) ==
    /\ sthr[t].pc = "stop_wait"
    /\ \/ /\ service' = 0
          /\ child' = NoChild
          /\ ThReturn(t)
          /\ service_lock' = FALSE
       \/ /\ child.alive
          /\ ThGoto(t, "stop_kill")
          /\ UNCHANGED <<service, child, service_lock>>
    /\ UNCHANGED <<monitor, game, fs, program_path>>
    /\ UNCHANGED callerVars

\* stop_service: "except subprocess.TimeoutExpired: self._service.kill()",
\* then "finally: self._service = None"
ThStopKill(t) ==
    /\ sthr[t].pc = "stop_kill"
    /\ service' = 0
    /\ child' = NoChild
    /\ ThReturn(t)
    /\ service_lock' = FALSE
    /\ UNCHANGED <<monitor, game, fs, program_path>>
    /\ UNCHANGED callerVars

\* the environment, with the threads where they are
ThEnvironment ==
    /\ GameToggle \/ ChildExit \/ FsChange
    /\ UNCHANGED sthr

ServiceThreadsNext ==
    \/ \E t \in Threads : (ThCallEnsureService(t) /\ UNCHANGED <<sanVars, cliVars, thrVars, other, call, orphan, extVars>>)
    \/ \E t \in Threads : (ThCallIsServiceAlive(t) /\ UNCHANGED <<sanVars, cliVars, thrVars, other, call, orphan, extVars>>)
    \/ \E t \in Threads : (ThCallStopService(t) /\ UNCHANGED <<sanVars, cliVars, thrVars, other, call, orphan, extVars>>)
    \/ \E t \in Threads : (ThEsCheckGame(t) /\ UNCHANGED <<sanVars, cliVars, thrVars, other, call, orphan, extVars>>)
    \/ \E t \in Threads : (ThEsLock(t) /\ UNCHANGED <<sanVars, cliVars, thrVars, other, call, orphan, extVars>>)
    \/ \E t \in Threads : (ThProbeConnect(t) /\ UNCHANGED <<sanVars, cliVars, thrVars, other, call, orphan, extVars>>)
    \/ \E t \in Threads : (ThProbeSend(t) /\ UNCHANGED <<sanVars, cliVars, thrVars, other, call, orphan, extVars>>)
    \/ \E t \in Threads : (ThProbeDisconnect(t) /\ UNCHANGED <<sanVars, cliVars, thrVars, other, call, orphan, extVars>>)
    \/ \E t \in Threads : (ThEsFind(t) /\ UNCHANGED <<sanVars, cliVars, thrVars, other, call, orphan, extVars>>)
    \/ \E t \in Threads : (ThEsPoll(t) /\ UNCHANGED <<sanVars, cliVars, thrVars, other, call, orphan, extVars>>)
    \/ \E t \in Threads : (ThEsCheckGame2(t) /\ UNCHANGED <<sanVars, cliVars, thrVars, other, call, orphan, extVars>>)
    \/ \E t \in Threads : (ThEsPopen(t) /\ UNCHANGED <<sanVars, cliVars, thrVars, other, call, orphan, extVars>>)
    \/ \E t \in Threads : (ThEsPollNew(t) /\ UNCHANGED <<sanVars, cliVars, thrVars, other, call, orphan, extVars>>)
    \/ \E t \in Threads : (ThEsExcept(t) /\ UNCHANGED <<sanVars, cliVars, thrVars, other, call, orphan, extVars>>)
    \/ \E t \in Threads : (ThStopEnter(t) /\ UNCHANGED <<sanVars, cliVars, thrVars, other, call, orphan, extVars>>)
    \/ \E t \in Threads : (ThStopTerminate(t) /\ UNCHANGED <<sanVars, cliVars, thrVars, other, call, orphan, extVars>>)
    \/ \E t \in Threads : (ThStopWait(t) /\ UNCHANGED <<sanVars, cliVars, thrVars, other, call, orphan, extVars>>)
    \/ \E t \in Threads : (ThStopKill(t) /\ UNCHANGED <<sanVars, cliVars, thrVars, other, call, orphan, extVars>>)
    \/ (ThEnvironment /\ UNCHANGED <<sanVars, cliVars, thrVars, other, call, orphan, extVars>>)

SpecServiceThreads == ServiceInit /\ [][ServiceThreadsNext]_vars

\* a step of thread t inside an operation, other than taking the lock
ThStep(t) ==
    \/ ThEsCheckGame(t) \/ ThProbeConnect(t) \/ ThProbeSend(t) \/ ThProbeDisconnect(t)
    \/ ThEsFind(t) \/ ThEsPoll(t) \/ ThEsCheckGame2(t) \/ ThEsPopen(t)
    \/ ThEsPollNew(t) \/ ThEsExcept(t) \/ ThStopTerminate(t) \/ ThStopWait(t)
    \/ ThStopKill(t)

\* thread t takes the lock at the head of ensure_service or stop_service
ThAcquire(t) == ThEsLock(t) \/ ThStopEnter(t)

\* what a step of a thread on the supervisor leaves alone
ThFrame == UNCHANGED <<sanVars, cliVars, thrVars, other, call, orphan, extVars>>

\* the threads are scheduled: a thread inside an operation takes its next
\* step, and a thread that waits for the lock gets it when the lock is free
\* again and again.  Nothing obliges a thread to call an operation.
SpecServiceThreadsFair ==
    /\ ServiceInit
    /\ [][ServiceThreadsNext]_vars
    /\ \A t \in Threads : WF_vars(ThStep(t) /\ ThFrame)
    /\ \A t \in Threads : SF_vars(ThAcquire(t) /\ ThFrame)

-----------------------------------------------------------------------------
(* Properties of the sanitizer, checked under SpecSanitize.                 *)

Whitelist ==
    {"id", "text", "color", "size", "x", "y", "ttl", "shape", "fill", "w", "h",
     "command"}
TextFields == {"id", "text", "color", "size", "shape", "fill", "command"}
NumericFields == {"x", "y", "w", "h", "ttl"}
NumericTypes == {"int", "float", "bool"}

IsMapping(f) == f = [k \in DOMAIN f |-> f[k]]

\* C1: whatever mapping is sanitized, the result is a mapping whose keys all
\* belong to the fixed whitelist; a key outside the whitelist never appears.
C1_KeysWithinWhitelist ==
    phase # "input" =>
        /\ IsMapping(sanitized)
        /\ DOMAIN sanitized \subseteq Whitelist
        /\ DOMAIN sanitized \subseteq DOMAIN raw

C1_Witness ==
    /\ phase = "once"
    /\ "malicious_field" \in DOMAIN raw
    /\ "text" \in DOMAIN sanitized

\* C2 as stated: every text field (id among them) of the result holds text and
\* every numeric field holds a number; no other type is passed through.
C2_DeclaredTypesAsStated ==
    phase # "input" =>
        \A k \in DOMAIN sanitized :
            /\ k \in TextFields => sanitized[k].t = "str"
            /\ k \in NumericFields => sanitized[k].t \in NumericTypes

\* C2 amended: id holds text or an integer, the other text fields hold text,
\* and x, y, w, h, ttl hold a number (an integer, a bool counting as one, or a
\* real); a value of any other type is never passed through.
C2_DeclaredTypes ==
    phase # "input" =>
        \A k \in DOMAIN sanitized :
            /\ k = "id" => sanitized[k].t \in {"str", "int", "bool"}
            /\ k \in TextFields \ {"id"} => sanitized[k].t = "str"
            /\ k \in NumericFields => sanitized[k].t \in NumericTypes

C2_Witness ==
    /\ phase = "once"
    /\ "id" \in DOMAIN sanitized /\ sanitized["id"].t = "int"
    /\ "x" \in DOMAIN raw /\ raw["x"].t = "str" /\ "x" \notin DOMAIN sanitized

\* C3: every text field of the result (id, text, color, size, shape, fill,
\* command) is the first 1000 characters of the input value: unchanged when
\* that has at most 1000 characters, and never longer than 1000 characters.
C3_TextTruncated ==
    phase # "input" =>
        \A k \in DOMAIN sanitized \cap TextFields :
            sanitized[k].t = "str" =>
                /\ Len(sanitized[k].s) <= 1000
                /\ sanitized[k].s =
                      [i \in 1..(IF Len(raw[k].s) <= 1000 THEN Len(raw[k].s) ELSE 1000)
                          |-> raw[k].s[i]]

\* the value claim C4 expects for a kept field
C4_Expected(v) ==
    IF v.t = "str"
    THEN PyStr([i \in 1..(IF Len(v.s) <= 1000 THEN Len(v.s) ELSE 1000) |-> v.s[i]])
    ELSE v

C4_Valid(k, v) == k \in Whitelist /\ Mro(v.t) \cap allowed_fields[k] # {}

\* C4: sanitization is field by field: a whitelisted field of an accepted type
\* is kept whatever the other fields are (text cut to 1000 characters, numbers
\* unchanged), every other field is dropped alone, and a message of valid
\* fields within the length limit comes back equal to the input.
C4_FieldByField ==
    phase # "input" =>
        /\ DOMAIN sanitized = {k \in DOMAIN raw : C4_Valid(k, raw[k])}
        /\ \A k \in DOMAIN sanitized : sanitized[k] = C4_Expected(raw[k])
        /\ ( (\A k \in DOMAIN raw : C4_Valid(k, raw[k]) /\ Len(raw[k].s) <= 1000)
               => sanitized = raw )

\* C5: sanitizing the result of a sanitization gives that result again.
C5_Idempotent ==
    phase = "twice" => resanitized = sanitized

C5_Witness ==
    /\ phase = "twice"
    /\ \E k \in DOMAIN raw : k \in DOMAIN sanitized /\ Len(raw[k].s) > Len(sanitized[k].s)
    /\ \E k \in DOMAIN raw : k \notin DOMAIN sanitized

-----------------------------------------------------------------------------
(* Properties of the protocol client, checked under Spec.                   *)

\* the public operation called last has returned or raised to the caller
Done(name) == pc = "idle" /\ op = name

IsAttempt(e) == e.ev = "attempt"
IsWriteFailure(e) == e.ev \in {"send_data", "send_newline"} /\ e.how = "raised"
Attempts == SelectSeq(log, IsAttempt)
EveryAttemptFailed == \A i \in DOMAIN log : log[i].ev = "attempt" => log[i].how # "ok"
EveryAttemptRefusedOrTimedOut ==
    \A i \in DOMAIN log :
        log[i].ev = "attempt" => log[i].how \in {"timeout", "ConnectionRefusedError"}

\* C6: a connect() on a disconnected client whose attempts are all refused or
\* timed out makes 3 attempts with a sleep between consecutive ones (2 sleeps,
\* none after the last), then raises OverlayConnectionError, and the client is
\* still disconnected.
C6_ConnectFailure ==
    (op = "connect" /\ entryConn = 0 /\ EveryAttemptRefusedOrTimedOut) =>
        /\ Len(log) <= 5
        /\ \A i \in DOMAIN log :
              IF i % 2 = 1
              THEN log[i].ev = "attempt"
              ELSE log[i].ev = "sleep"
        /\ connection = 0
        /\ pc \in {"api_return", "idle"} =>
              /\ Len(log) = 5
              /\ (IF pc = "idle" THEN result ELSE exc) = "OverlayConnectionError"

C6_Witness ==
    /\ Done("connect") /\ entryConn = 0
    /\ result = "OverlayConnectionError"
    /\ Len(Attempts) = 3
    /\ \E i, j \in DOMAIN log :
          log[i].how = "timeout" /\ log[j].how = "ConnectionRefusedError"

\* C7: when the k-th attempt of a connect() is the first to succeed, connect()
\* has made exactly k attempts (k <= 3), every earlier one failed and was
\* followed by a sleep, no attempt follows, connect() returns without error
\* and the client holds the socket of the k-th attempt.
C7_ConnectSuccess ==
    \A i \in DOMAIN log :
        (op = "connect" /\ log[i].ev = "attempt" /\ log[i].how = "ok") =>
            /\ i = Len(log)
            /\ i \in {1, 3, 5}
            /\ Len(Attempts) = (i + 1) \div 2
            /\ \A j \in 1..(i - 1) :
                  IF j % 2 = 1
                  THEN log[j].ev = "attempt" /\ log[j].how # "ok"
                  ELSE log[j].ev = "sleep"
            /\ connection = log[i].sock
            /\ ~locked
            /\ pc \in {"api_return", "idle"}
            /\ (IF pc = "idle" THEN result = "ok" ELSE exc = "none")

C7_Witness ==
    /\ Done("connect") /\ entryConn = 0
    /\ result = "ok"
    /\ Len(Attempts) = 3
    /\ connection = log[Len(log)].sock

\* C8: once a write of a send_raw call has failed, the call does not return
\* normally: when it ends it has raised OverlayConnectionError, close() was
\* called on the socket of the failed write, and the client is disconnected.
C8_WriteFailureDisconnects ==
    \A i \in DOMAIN log :
        (op = "send_raw" /\ IsWriteFailure(log[i])) =>
            /\ Len(log) <= i + 1
            /\ Len(log) = i + 1 =>
                  /\ log[i + 1].ev = "close" /\ log[i + 1].sock = log[i].sock
                  /\ connection = 0
            /\ pc = "api_return" => exc = "OverlayConnectionError"
            /\ pc = "idle" =>
                  /\ result = "OverlayConnectionError"
                  /\ Len(log) = i + 1
                  /\ connection = 0

C8_Witness ==
    /\ Done("send_raw") /\ entryConn # 0
    /\ result = "OverlayConnectionError"
    /\ \E i \in DOMAIN log : log[i].ev = "send_newline" /\ log[i].how = "raised"

\* C9 as stated: a send_raw called on a disconnected client makes no
\* connection attempt and transmits nothing.
C9_NeverConnectsAsStated ==
    (op = "send_raw" /\ entryConn = 0) => (Attempts = <<>> /\ sent = <<>>)

\* C9 amended: send_raw called on a connected client makes no connection
\* attempt; called on a disconnected client it runs connect() itself, at most
\* 3 attempts, and writes only to the socket of the attempt that succeeded;
\* when every attempt fails it transmits nothing, raises
\* OverlayConnectionError and leaves the client disconnected.
C9_ConnectsWhenDisconnected ==
    op = "send_raw" =>
        /\ entryConn # 0 =>
              /\ Attempts = <<>>
              /\ \A c \in DOMAIN sent : sent[c].sock = entryConn
        /\ entryConn = 0 =>
              /\ Len(Attempts) <= 3
              /\ \A c \in DOMAIN sent :
                    \E i \in DOMAIN log :
                        /\ log[i].ev = "attempt" /\ log[i].how = "ok"
                        /\ log[i].sock = sent[c].sock
              /\ (pc = "idle" /\ arg.isdict /\ EveryAttemptFailed) =>
                    /\ Len(Attempts) = 3
                    /\ sent = <<>>
                    /\ result = "OverlayConnectionError"
                    /\ connection = 0

C9_Witness ==
    /\ Done("send_raw") /\ entryConn = 0
    /\ result = "ok"
    /\ Len(Attempts) = 2
    /\ Len(sent) = 2

\* C10: a send_raw call that returned normally has written exactly one
\* complete line, the whole payload then the newline, once; a send_raw call
\* that raised has put nothing of its message on the connection.
C10_WrittenIffReturned ==
    Done("send_raw") =>
        /\ result = "ok" =>
              sent = << Chunk(connection, "data", JsonDumps(SanitizeMessage(arg.m)), "all"),
                        Chunk(connection, "newline", <<>>, "all") >>
        /\ result # "ok" => sent = <<>>

\* C13: a connect() on a connected client makes no connection attempt, does
\* not sleep, returns normally and leaves the connection as it was.
C13_ConnectWhenConnected ==
    (op = "connect" /\ entryConn # 0) =>
        /\ log = <<>>
        /\ connection = entryConn
        /\ ~locked
        /\ pc \in {"connect", "api_return", "idle"}
        /\ pc = "api_return" => exc = "none"
        /\ pc = "idle" => result = "ok"

C13_Witness == Done("connect") /\ entryConn # 0 /\ result = "ok"

\* C14: disconnect() returns normally with the client disconnected from any
\* state, also when close() raises; called on a disconnected client it closes
\* nothing and changes nothing.
C14_DisconnectIdempotent ==
    op = "disconnect" =>
        /\ pc = "api_return" => exc = "none"
        /\ pc = "idle" => (result = "ok" /\ connection = 0 /\ ~locked)
        /\ entryConn = 0 => (log = <<>> /\ connection = 0)
        /\ entryConn # 0 =>
              \/ log = <<>> /\ connection = entryConn
              \/ /\ Len(log) = 1 /\ log[1].ev = "close" /\ log[1].sock = entryConn
                 /\ connection = 0

C14_Witness ==
    /\ Done("disconnect") /\ entryConn # 0
    /\ log = <<Ev("close", entryConn, "raised")>>
    /\ result = "ok"

\* C15: a send_raw called with a value that is not a mapping raises ValueError
\* before any I/O: no connection attempt, nothing written, the connection
\* unchanged.
C15_NonMappingRejected ==
    (op = "send_raw" /\ ~arg.isdict) =>
        /\ log = <<>>
        /\ sent = <<>>
        /\ connection = entryConn
        /\ pc \in {"send_raw", "api_return", "idle"}
        /\ pc = "api_return" => exc = "ValueError"
        /\ pc = "idle" => result = "ValueError"

C15_Witness ==
    /\ Done("send_raw") /\ ~arg.isdict
    /\ entryConn = 0
    /\ result = "ValueError"

-----------------------------------------------------------------------------
(* Several threads on one Overlay: each runs connect, disconnect and        *)
(* send_raw as above, step by step, interleaved with the other threads.     *)
(* connection and locked are the fields the threads share.                  *)

cliLocals == <<pc, stack, exc, arg, conn, attempt, op, result, log, sent, entryConn>>

\* the message a thread sends: its own text in a command
ThreadMsg(t) == [command |-> PyStr(<<IF t = 1 THEN "a" ELSE "b">>)]

\* data of send_raw in thread t
ThreadData(t) == JsonDumps(SanitizeMessage(ThreadMsg(t)))

\* socket.socket(): a socket object other than those referred to
TNewSocket ==
    CHOOSE n \in 1..(Cardinality(open) + Cardinality(Threads) + 1) :
        LET used == open \cup {connection} \cup { thr[t].conn : t \in Threads }
        IN n \notin used /\ \A k \in 1..(n - 1) : k \in used

\* thread t is inside the attempt sequence of connect
InAttempts(t) == thr[t].pc \in {"connect_attempt", "connect_sleep"}

\* a call in thread record r: continue at entry, come back at label
TCall(r, entry, label) == [r EXCEPT !.pc = entry, !.stack = Append(@, label)]

\* a return (e = "none") or a raise of e out of the function in progress
TReturn(r, e) ==
    [r EXCEPT !.pc = r.stack[Len(r.stack)],
              !.stack = SubSeq(r.stack, 1, Len(r.stack) - 1),
              !.exc = e]

\* thread t calls a public operation
TBegin(t, name) ==
    /\ thr[t].pc = "idle"
    /\ thr' = [thr EXCEPT ![t] =
                  [pc |-> name, stack |-> <<"api_return">>, exc |-> "none", conn |-> 0,
                   attempt |-> 0, op |-> name, tried |-> FALSE,
                   overlap |-> \E u \in Threads \ {t} : InAttempts(u)]]
    /\ UNCHANGED <<connection, locked, open, pending>>
    /\ UNCHANGED cliLocals

TCallConnect(t) == TBegin(t, "connect")

TCallDisconnect(t) == TBegin(t, "disconnect")

TCallSendRaw(t) == TBegin(t, "send_raw")

\* the public operation returns or raises to the caller of thread t
TApiReturn(t) ==
    /\ thr[t].pc = "api_return"
    /\ thr' = [thr EXCEPT ![t] = IdleThread]
    /\ UNCHANGED <<connection, locked, open, pending>>
    /\ UNCHANGED cliLocals

\* connect without "with self._lock": the test and the loop run unguarded
TConnectEnter_NoLock(t) ==
    /\ thr[t].pc = "connect"
    /\ IF connection # 0
       THEN thr' = [thr EXCEPT ![t] = TReturn(@, "none")]
       ELSE thr' = [thr EXCEPT ![t] =
                       [@ EXCEPT !.pc = "connect_attempt", !.attempt = 0]]
    /\ UNCHANGED <<connection, locked, open, pending>>
    /\ UNCHANGED cliLocals

\* connect: "with self._lock: if self.connection: return", else the loop starts
TConnectEnter(t) ==
    /\ thr[t].pc = "connect"
    /\ ~locked
    /\ IF connection # 0
       THEN /\ thr' = [thr EXCEPT ![t] = TReturn(@, "none")]
            /\ UNCHANGED locked
       ELSE /\ thr' = [thr EXCEPT ![t] =
                          [@ EXCEPT !.pc = "connect_attempt", !.attempt = 0]]
            /\ locked' = TRUE
    /\ UNCHANGED <<connection, open, pending>>
    /\ UNCHANGED cliLocals

\* connect: an attempt succeeds: the socket is stored and connect returns
TConnectAttemptOk(t) ==
    /\ thr[t].pc = "connect_attempt"
    /\ connection' = TNewSocket
    /\ open' = open \cup {TNewSocket}
    /\ pending' = <<>>
    /\ locked' = FALSE
    /\ thr' = [thr EXCEPT ![t] =
                  [TReturn(@, "none") EXCEPT !.tried = TRUE, !.attempt = 0]]
    /\ UNCHANGED cliLocals

\* connect: an attempt fails: sleep before the next one, raise after the last
TConnectAttemptFail(t) ==
    /\ thr[t].pc = "connect_attempt"
    /\ IF thr[t].attempt < RECONNECT_ATTEMPTS - 1
       THEN /\ thr' = [thr EXCEPT ![t] =
                          [@ EXCEPT !.pc = "connect_sleep", !.tried = TRUE]]
            /\ UNCHANGED locked
       ELSE /\ thr' = [thr EXCEPT ![t] =
                          [TReturn(@, "OverlayConnectionError")
                              EXCEPT !.tried = TRUE, !.attempt = 0]]
            /\ locked' = FALSE
    /\ UNCHANGED <<connection, open, pending>>
    /\ UNCHANGED cliLocals

\* connect: time.sleep(RECONNECT_DELAY), then the next iteration
TConnectSleep(t) ==
    /\ thr[t].pc = "connect_sleep"
    /\ thr' = [thr EXCEPT ![t] =
                  [@ EXCEPT !.pc = "connect_attempt", !.attempt = @ + 1]]
    /\ UNCHANGED <<connection, locked, open, pending>>
    /\ UNCHANGED cliLocals

\* disconnect: "with self._lock: if self.connection:"
TDisconnectEnter(t) ==
    /\ thr[t].pc = "disconnect"
    /\ ~locked
    /\ IF connection = 0
       THEN /\ thr' = [thr EXCEPT ![t] = TReturn(@, "none")]
            /\ UNCHANGED locked
       ELSE /\ thr' = [thr EXCEPT ![t] = [@ EXCEPT !.pc = "disconnect_close"]]
            /\ locked' = TRUE
    /\ UNCHANGED <<connection, open, pending>>
    /\ UNCHANGED cliLocals

\* disconnect: close() returns or raises (logged), the connection is cleared
TDisconnectClose(t) ==
    /\ thr[t].pc = "disconnect_close"
    /\ open' = open \ {connection}
    /\ connection' = 0
    /\ locked' = FALSE
    /\ thr' = [thr EXCEPT ![t] = TReturn(@, "none")]
    /\ UNCHANGED pending
    /\ UNCHANGED cliLocals

\* send_raw with a mapping: the context manager is entered:
\* "if not self.connection: self.connect()"
TSendRawEnter(t) ==
    /\ thr[t].pc = "send_raw"
    /\ IF connection = 0
       THEN thr' = [thr EXCEPT ![t] = TCall(@, "connect", "ctx_connected")]
       ELSE thr' = [thr EXCEPT ![t] = [@ EXCEPT !.pc = "ctx_connected"]]
    /\ UNCHANGED <<connection, locked, open, pending>>
    /\ UNCHANGED cliLocals

\* the context manager after "if not self.connection: self.connect()":
\* "yield self.connection" reads the field again (None if another thread has
\* disconnected meanwhile), or the exception of connect() is handled
TCtxConnected(t) ==
    /\ thr[t].pc = "ctx_connected"
    /\ IF thr[t].exc = "none"
       THEN thr' = [thr EXCEPT ![t] =
                       [@ EXCEPT !.pc = "send_data", !.conn = connection]]
       ELSE thr' = [thr EXCEPT ![t] = [@ EXCEPT !.pc = "ctx_except"]]
    /\ UNCHANGED <<connection, locked, open, pending>>
    /\ UNCHANGED cliLocals

\* what one conn.send of thread t put on the connection
TChunk(t, kind, body, part) ==
    [thread |-> t, kind |-> kind, body |-> body, part |-> part]

\* the socket thread t writes to is the open connection
CanWrite(t) == thr[t].conn # 0 /\ thr[t].conn = connection

\* send_raw: conn.send(data.encode("utf-8")) takes all the bytes
TSendData(t) ==
    /\ thr[t].pc = "send_data"
    /\ CanWrite(t)
    /\ pending' = Append(pending, TChunk(t, "data", ThreadData(t), "all"))
    /\ thr' = [thr EXCEPT ![t] = [@ EXCEPT !.pc = "send_newline"]]
    /\ UNCHANGED <<connection, locked, open>>
    /\ UNCHANGED cliLocals

\* send_raw: conn.send(data.encode("utf-8")) takes only some of the bytes
TSendDataShort(t) ==
    /\ thr[t].pc = "send_data"
    /\ CanWrite(t)
    /\ pending' = Append(pending, TChunk(t, "data", ThreadData(t), "part"))
    /\ thr' = [thr EXCEPT ![t] = [@ EXCEPT !.pc = "send_newline"]]
    /\ UNCHANGED <<connection, locked, open>>
    /\ UNCHANGED cliLocals

\* send_raw: conn.send(b"\n") ends a line on the connection; the with block
\* ends and send_raw returns
TSendNewline(t) ==
    /\ thr[t].pc = "send_newline"
    /\ CanWrite(t)
    /\ pending' = <<>>
    /\ thr' = [thr EXCEPT ![t] = [TReturn(@, "none") EXCEPT !.conn = 0]]
    /\ UNCHANGED <<connection, locked, open>>
    /\ UNCHANGED cliLocals

\* send_raw: either conn.send raises: conn is None, the socket was closed by
\* another thread, or the connection fails; the context manager catches it
TSendFail(t) ==
    /\ thr[t].pc \in {"send_data", "send_newline"}
    /\ \E e \in (IF thr[t].conn = 0 THEN {"AttributeError"}
                 ELSE IF thr[t].conn # connection THEN {"OSError"}
                 ELSE SendErrors) :
          thr' = [thr EXCEPT ![t] = [@ EXCEPT !.pc = "ctx_except", !.exc = e]]
    /\ UNCHANGED <<connection, locked, open, pending>>
    /\ UNCHANGED cliLocals

\* the context manager: "except Exception as e: self.disconnect()"
TCtxExcept(t) ==
    /\ thr[t].pc = "ctx_except"
    /\ thr' = [thr EXCEPT ![t] = TCall(@, "disconnect", "ctx_raise")]
    /\ UNCHANGED <<connection, locked, open, pending>>
    /\ UNCHANGED cliLocals

\* send_raw's handlers: BrokenPipeError and ConnectionResetError disconnect
\* and raise OverlayConnectionError, any other exception is raised again
TSendRawExcept(t) ==
    /\ thr[t].pc = "send_raw_except"
    /\ IF thr[t].exc \in {"BrokenPipeError", "ConnectionResetError"}
       THEN thr' = [thr EXCEPT ![t] = TCall(@, "disconnect", "send_raw_raise")]
       ELSE thr' = [thr EXCEPT ![t] = TReturn(@, @.exc)]
    /\ UNCHANGED <<connection, locked, open, pending>>
    /\ UNCHANGED cliLocals

\* after the disconnect() of a handler: raise OverlayConnectionError, out of
\* the context manager into send_raw's handlers, or out of send_raw
TRaiseConnectionError(t) ==
    /\ thr[t].pc \in {"ctx_raise", "send_raw_raise"}
    /\ IF thr[t].pc = "ctx_raise"
       THEN thr' = [thr EXCEPT ![t] =
                       [@ EXCEPT !.pc = "send_raw_except",
                                 !.exc = "OverlayConnectionError"]]
       ELSE thr' = [thr EXCEPT ![t] = TReturn(@, "OverlayConnectionError")]
    /\ UNCHANGED <<connection, locked, open, pending>>
    /\ UNCHANGED cliLocals

\* the Overlay after construction, no thread in an operation
ThreadsInit ==
    /\ raw = <<>>
    /\ sanitized = <<>>
    /\ resanitized = <<>>
    /\ phase = "input"
    /\ CliInit
    /\ SvcInit
    /\ ThrInit
    /\ PlugInit

ThreadsNext ==
    \/ \E t \in Threads : (TCallConnect(t) /\ UNCHANGED <<sanVars, svcVars, plugVars>>)
    \/ \E t \in Threads : (TCallDisconnect(t) /\ UNCHANGED <<sanVars, svcVars, plugVars>>)
    \/ \E t \in Threads : (TCallSendRaw(t) /\ UNCHANGED <<sanVars, svcVars, plugVars>>)
    \/ \E t \in Threads : (TApiReturn(t) /\ UNCHANGED <<sanVars, svcVars, plugVars>>)
    \/ \E t \in Threads : (TConnectEnter(t) /\ UNCHANGED <<sanVars, svcVars, plugVars>>)
    \/ \E t \in Threads : (TConnectAttemptOk(t) /\ UNCHANGED <<sanVars, svcVars, plugVars>>)
    \/ \E t \in Threads : (TConnectAttemptFail(t) /\ UNCHANGED <<sanVars, svcVars, plugVars>>)
    \/ \E t \in Threads : (TConnectSleep(t) /\ UNCHANGED <<sanVars, svcVars, plugVars>>)
    \/ \E t \in Threads : (TDisconnectEnter(t) /\ UNCHANGED <<sanVars, svcVars, plugVars>>)
    \/ \E t \in Threads : (TDisconnectClose(t) /\ UNCHANGED <<sanVars, svcVars, plugVars>>)
    \/ \E t \in Threads : (TSendRawEnter(t) /\ UNCHANGED <<sanVars, svcVars, plugVars>>)
    \/ \E t \in Threads : (TCtxConnected(t) /\ UNCHANGED <<sanVars, svcVars, plugVars>>)
    \/ \E t \in Threads : (TSendData(t) /\ UNCHANGED <<sanVars, svcVars, plugVars>>)
    \/ \E t \in Threads : (TSendDataShort(t) /\ UNCHANGED <<sanVars, svcVars, plugVars>>)
    \/ \E t \in Threads : (TSendNewline(t) /\ UNCHANGED <<sanVars, svcVars, plugVars>>)
    \/ \E t \in Threads : (TSendFail(t) /\ UNCHANGED <<sanVars, svcVars, plugVars>>)
    \/ \E t \in Threads : (TCtxExcept(t) /\ UNCHANGED <<sanVars, svcVars, plugVars>>)
    \/ \E t \in Threads : (TSendRawExcept(t) /\ UNCHANGED <<sanVars, svcVars, plugVars>>)
    \/ \E t \in Threads : (TRaiseConnectionError(t) /\ UNCHANGED <<sanVars, svcVars, plugVars>>)

SpecThreads == ThreadsInit /\ [][ThreadsNext]_vars


-----------------------------------------------------------------------------
(* Claims about the supervisor (specification SpecService).                 *)

\* the events of a kind in the log of the operation
Events(kind) == { i \in DOMAIN slog : slog[i].ev = kind }

\* the children the operation has spawned, oldest first
Spawned == SelectSeq(slog, LAMBDA e : e.ev = "popen" /\ e.how = "ok")

\* the operation was ensure_service and it found the host predicate as given
\* at its entry test
EnteredWith(answer) ==
    /\ sop = "ensure_service"
    /\ slog # <<>>
    /\ slog[1] = Step("game_running", 0, "", answer)

SvcDone(name) == spc = "idle" /\ sop = name

\* C16: an ensure_service that finds the host predicate false at entry does
\* nothing: no probe, no search, no spawn, the handle and the cached path as
\* they were, a normal return.
C16_NoOpWhenHostDown ==
    EnteredWith("no") =>
        /\ Len(slog) = 1
        /\ spc = "idle"
        /\ sresult = Ok
        /\ ~service_lock
        /\ ~probe
        /\ service = entryService
        /\ program_path = entryPath

C16_Witness ==
    /\ EnteredWith("no")
    /\ SvcDone("ensure_service")
    /\ fs # {}
    /\ entryPath = "None"
    /\ entryService = 0

\* the pieces of part occur in msg, adjacent and in order
Contains(msg, part) ==
    \E k \in 0..(Len(msg) - Len(part)) : SubSeq(msg, k + 1, k + Len(part)) = part

\* the operation was ensure_service, it started a child and found it exited at
\* the poll() after the grace period
LaunchedChildExited ==
    /\ sop = "ensure_service"
    /\ \E i \in Events("popen") :
          /\ slog[i].how = "ok"
          /\ \E j \in Events("poll") : j > i /\ slog[j].how = "exited"

\* the answer of the last check_game_running() of the operation
LastGameCheck == slog[CHOOSE i \in Events("game_running") :
                         \A j \in Events("game_running") : j <= i].how

\* the error carries the exit code and the decoded stderr of the child
ReportsChild(e) ==
    /\ e.type = "OverlayServiceError"
    /\ Contains(e.msg, <<ToString(child.code)>>)
    /\ Contains(e.msg, Decode(child.stderr))

\* C17 as stated: an ensure_service whose child has exited at the end of the
\* grace period always fails with a service error naming the exit code and
\* the stderr text.
C17_LaunchFailureAlwaysRaised ==
    (LaunchedChildExited /\ spc = "idle") => ReportsChild(sresult)

\* C17: an ensure_service whose child has exited at the end of the grace
\* period raises a service error naming the exit code and the stderr text
\* when check_game_running() is true in the handler, and returns normally,
\* keeping the handle to the exited child, when it is false there.
C17_LaunchFailureRaisedWhileHostUp ==
    LaunchedChildExited =>
        /\ spc \in {"es_except", "idle"}
        /\ service # 0 /\ ~child.alive
        /\ spc = "es_except" => ReportsChild(err)
        /\ spc = "idle" =>
              /\ ~service_lock
              /\ LastGameCheck = "yes" =>
                    /\ ReportsChild(sresult)
                    /\ Contains(sresult.msg, err.msg)
              /\ LastGameCheck = "no" => sresult = Ok

C17_Witness ==
    /\ LaunchedChildExited
    /\ spc = "idle"
    /\ child = Exited(1, <<"bo", "\\xff", "om">>)
    /\ sresult = Exc("OverlayServiceError",
                     << "Failed to start overlay service: ", program,
                        " exited with code ", "1", ", stderr: ", "bo", "om" >>)

NotFoundError == Exc("OverlayServiceError", <<"EDMCOverlay.exe not found">>)

\* the operation was ensure_service with the host predicate true at entry, its
\* probe failed and it called find_server_program while no candidate location
\* held the executable
SearchedInVain ==
    /\ EnteredWith("yes")
    /\ Events("find") # {}
    /\ fsAtFind = {}

\* C18 as stated: host predicate true, probe failed, no candidate location
\* holds the executable: ensure_service raises the not-found error and spawns
\* nothing.
C18_NotFoundWheneverAbsent ==
    (SearchedInVain /\ spc = "idle") => (sresult = NotFoundError /\ Spawned = <<>>)

\* C18: host predicate true, probe failed, no path cached by an earlier
\* discovery and no candidate location holds the executable: ensure_service
\* raises the not-found error, spawns nothing, keeps the handle and caches
\* nothing.
C18_NotFoundWhenAbsentAndNotCached ==
    (SearchedInVain /\ entryPath = "None") =>
        /\ spc = "idle"
        /\ sresult = NotFoundError
        /\ Spawned = <<>>
        /\ Events("popen") = {}
        /\ service = entryService
        /\ program_path = "None"
        /\ ~service_lock

C18_Witness ==
    /\ SearchedInVain
    /\ entryPath = "None"
    /\ spc = "idle"
    /\ sresult = NotFoundError
    /\ slog[Len(slog)].how = "missing"

\* the operation was ensure_service and its probe succeeded: the probe client
\* connected, sent its message and was disconnected
ProbeSucceeded ==
    /\ sop = "ensure_service"
    /\ \E i \in Events("probe_send") : slog[i].how = "ok"
    /\ Events("probe_close") # {}

\* C19: an ensure_service whose probe succeeds returns at once: no search for
\* the executable, no poll, no spawn, the handle and the cached path as they
\* were, a normal return also when no executable is installed.
C19_ProbeOkReturns ==
    ProbeSucceeded =>
        /\ spc = "idle"
        /\ sresult = Ok
        /\ alive
        /\ ~service_lock
        /\ Events("find") = {}
        /\ Events("poll") = {}
        /\ Events("popen") = {}
        /\ Events("sleep") = {}
        /\ Len(slog) = 4
        /\ service = entryService
        /\ program_path = entryPath

C19_Witness ==
    /\ ProbeSucceeded
    /\ spc = "idle"
    /\ sresult = Ok
    /\ fs = {}
    /\ entryPath = "None"
    /\ entryService = 0

\* the first poll() of the operation: the one of the handle held at entry
FirstPoll == CHOOSE i \in Events("poll") : \A j \in Events("poll") : i <= j

\* the operation was ensure_service with the host predicate true at entry, its
\* probe failed, find_server_program returned a path, and the supervisor held
\* no handle or a handle to an exited process
ReadyToLaunch ==
    /\ EnteredWith("yes")
    /\ \E i \in Events("find") : slog[i].path # "None"
    /\ Events("poll") # {}
    /\ slog[FirstPoll].how \in {"none", "exited"}

\* the launch attempts of the operation
PopenCalls == SelectSeq(slog, LAMBDA e : e.ev = "popen")

\* C20 as stated: under ReadyToLaunch one ensure_service spawns exactly one
\* child and the handle refers to it afterwards.
C20_SpawnsExactlyOne ==
    (ReadyToLaunch /\ spc = "idle") =>
        /\ Len(Spawned) = 1
        /\ service = Spawned[1].pid

\* C20: under ReadyToLaunch one ensure_service calls Popen at most once:
\* exactly once when check_game_running() is still true before the launch,
\* never when it is false (a normal return, the handle unchanged).  A Popen
\* that returns spawns the one child of the call and the handle refers to this
\* new child afterwards; a Popen that raises spawns none and leaves the handle.
C20_SpawnsAtMostOne ==
    ReadyToLaunch =>
        /\ Len(PopenCalls) <= 1
        /\ Len(Spawned) = 1 =>
              /\ service = Spawned[1].pid
              /\ service # entryService
        /\ Len(Spawned) = 0 => service = entryService
        /\ spc = "idle" =>
              /\ ~service_lock
              /\ slog[FirstPoll + 1].ev = "game_running"
              /\ slog[FirstPoll + 1].how = "yes" => Len(PopenCalls) = 1
              /\ slog[FirstPoll + 1].how = "no" =>
                    (PopenCalls = <<>> /\ sresult = Ok)

C20_Witness ==
    /\ ReadyToLaunch
    /\ spc = "idle"
    /\ sresult = Ok
    /\ entryService # 0
    /\ Len(Spawned) = 1
    /\ service = Spawned[1].pid
    /\ child.alive

-----------------------------------------------------------------------------
(* Claims about threads on one Overlay (specification SpecThreads).         *)

\* thread t completes a line in this step: its conn.send(b"\n") returns
EndsLine(t) ==
    /\ thr[t].pc = "send_newline"
    /\ thr'[t].pc = "api_return"
    /\ thr'[t].exc = "none"

\* every conn.send whose bytes are in the line being completed took all of
\* its bytes
WholeWrites == \A i \in DOMAIN pending : pending[i].part = "all"

\* C11: when threads call send_raw on one connected Overlay, every line
\* completed on the connection is the JSON object of exactly one message, the
\* one of the thread whose newline ends it: no line holds the bytes of two
\* messages and no line is empty.
C11_LinesIndivisible ==
    [][\A t \in Threads :
          (EndsLine(t) /\ WholeWrites) =>
              pending = <<TChunk(t, "data", ThreadData(t), "all")>>]_vars

\* C12: connect() calls on one Overlay exclude each other: at most one thread
\* is inside the attempt sequence, it holds the lock and runs only while the
\* client is disconnected, so a thread that finds the client connected makes
\* no attempt; the client never has more than one open socket, the one in
\* self.connection.
C12_ConnectExclusive ==
    /\ \A t, u \in Threads : (InAttempts(t) /\ InAttempts(u)) => t = u
    /\ \A t \in Threads : InAttempts(t) => (locked /\ connection = 0)
    /\ open = (IF connection = 0 THEN {} ELSE {connection})
    /\ \A t \in Threads :
          (thr[t].op = "connect" /\ thr[t].pc = "api_return" /\ ~thr[t].tried) =>
              thr[t].exc = "none"

\* two connect() calls overlap: thread 1 connects, thread 2, called while
\* thread 1 was in its attempts, returns without an attempt of its own
C12_Witness ==
    /\ thr[1].op = "connect" /\ thr[1].pc = "api_return"
    /\ thr[1].tried /\ thr[1].exc = "none"
    /\ thr[2].op = "connect" /\ thr[2].pc = "api_return"
    /\ thr[2].overlap /\ ~thr[2].tried /\ thr[2].exc = "none"
    /\ connection # 0
    /\ open = {connection}

-----------------------------------------------------------------------------
(* More claims about the supervisor (specification SpecService).            *)

\* the operation was ensure_service with the host predicate true at entry, its
\* probe failed, and it has returned normally
EnsureReturnedOk ==
    /\ EnteredWith("yes")
    /\ Events("find") # {}
    /\ spc = "idle"
    /\ sresult = Ok

\* the last poll() of the operation
LastPoll == CHOOSE i \in Events("poll") : \A j \in Events("poll") : j <= i

\* the operation saw the process of the handle it leaves behind running, at
\* its last poll()
LeftRunning ==
    /\ Events("poll") # {}
    /\ slog[LastPoll].how = "running"
    /\ slog[LastPoll].pid = service
    /\ service # 0

\* C21 as stated: an ensure_service entered with the host predicate true and a
\* failing probe returns normally only with a handle to a process it saw
\* running.
C21_OkMeansRunning == EnsureReturnedOk => LeftRunning

\* C21: an ensure_service entered with the host predicate true and a failing
\* probe returns normally only with a handle to a process it saw running at
\* its last poll(), or after check_game_running() answered false at its last
\* evaluation (before the launch or in the exception handler); in that second
\* case the handle may be absent or refer to an exited process.
C21_OkMeansRunningOrHostDown ==
    EnsureReturnedOk =>
        \/ LeftRunning
        \/ LastGameCheck = "no" /\ Cardinality(Events("game_running")) >= 2

C21_Witness ==
    /\ EnsureReturnedOk
    /\ LeftRunning
    /\ Len(Spawned) = 1
    /\ slog[Len(slog)] = Step("poll", service, "", "running")

\* C22: when stop_service has returned the supervisor holds no handle, after a
\* clean exit, a timeout followed by kill(), or an exception of terminate() or
\* kill(); with no handle at entry it does nothing.
C22_StopClearsHandle ==
    SvcDone("stop_service") =>
        /\ service = 0
        /\ child = NoChild
        /\ ~service_lock
        /\ program_path = entryPath
        /\ entryService = 0 => (slog = <<>> /\ sresult = Ok)

C22_Witness ==
    /\ SvcDone("stop_service")
    /\ entryService # 0
    /\ service = 0
    /\ \E i \in Events("terminate") : slog[i].how = "raised"

\* C23: stop_service returns normally in every case: when terminate() raises,
\* when wait() times out, and when the kill() after the timeout raises.
C23_StopNeverRaises == SvcDone("stop_service") => sresult = Ok

\* the find_server_program call of the operation, and the path it returned
FindCall == CHOOSE i \in Events("find") : TRUE

\* C26: find_server_program returns the first location, in the order of the
\* list, that holds the executable, and caches it; with a path cached it
\* returns that path without a look at the filesystem, also when the file is
\* gone; when no location holds the executable it returns None and caches
\* nothing.
C26_FirstFoundAndCached ==
    Events("find") # {} =>
        LET f == slog[FindCall].path
        IN /\ Cardinality(Events("find")) = 1
           /\ program = f
           /\ entryPath # "None" =>
                 /\ f = entryPath
                 /\ program_path = entryPath
                 /\ slog[FindCall].how = "cached"
           /\ (entryPath = "None" /\ fsAtFind \cap Paths = {}) =>
                 /\ f = "None"
                 /\ program_path = "None"
           /\ (entryPath = "None" /\ fsAtFind \cap Paths # {}) =>
                 /\ program_path = f
                 /\ \E i \in DOMAIN locations :
                       /\ f = locations[i]
                       /\ f \in fsAtFind
                       /\ \A j \in 1..(i - 1) : locations[j] \notin fsAtFind
           /\ SvcDone("find_server_program") => sresult = Ok

C26_Witness ==
    /\ SvcDone("find_server_program")
    /\ entryPath = locations[4]
    /\ fsAtFind = {locations[2]}
    /\ program = locations[4]
    /\ program_path = locations[4]

-----------------------------------------------------------------------------
(* Claims about two threads on one supervisor (specification                *)
(* SpecServiceThreads).                                                     *)

\* thread t is running a probe, a launch or a termination
Acting(t) ==
    sthr[t].pc \in {"probe_connect", "probe_send", "probe_disconnect", "es_popen",
                    "es_sleep", "stop_terminate", "stop_wait", "stop_kill"}

\* thread t is in the part of ensure_service or of stop_service that runs
\* under "with self._lock"
InLockedBody(t) ==
    \/ /\ sthr[t].op = "ensure_service"
       /\ sthr[t].pc \in {"probe_connect", "probe_send", "probe_disconnect",
                          "es_find", "es_poll", "es_check_game2", "es_popen",
                          "es_sleep", "es_except"}
    \/ /\ sthr[t].op = "stop_service"
       /\ sthr[t].pc \in {"stop_terminate", "stop_wait", "stop_kill"}

\* C24 as stated: two threads are never both running a probe, a launch or a
\* termination of ensure_service, stop_service and is_service_alive.
C24_NoOverlap == \A t, u \in Threads : (Acting(t) /\ Acting(u)) => t = u

\* C24, amended: the locked bodies of ensure_service (its probe, search and
\* launch) and of stop_service (its termination) never overlap each other or
\* themselves, and the lock is held while a thread is in one; when two
\* threads do run a probe, a launch or a termination at once, one of them is
\* in an is_service_alive that was called directly.
C24_LaunchStopExclusive ==
    \A t, u \in Threads :
        /\ (InLockedBody(t) /\ InLockedBody(u)) => t = u
        /\ InLockedBody(t) => service_lock
        /\ (Acting(t) /\ Acting(u) /\ t # u)
              => "is_service_alive" \in {sthr[t].op, sthr[u].op}

\* C24 witness: a stop_service waits for the lock while the other thread's
\* ensure_service is between its Popen and its poll
C24_Witness ==
    \E t, u \in Threads :
        /\ sthr[t] = [pc |-> "es_sleep", op |-> "ensure_service"]
        /\ sthr[u] = [pc |-> "stop", op |-> "stop_service"]
        /\ service # 0

-----------------------------------------------------------------------------
(* Claims about the plugin's ServiceManager instances (specification        *)
(* SpecManagers).                                                           *)

\* C25: every launch goes through one supervisor, so at most one child
\* process launched by the plugin is running at any time.
C25_OneChildRunning ==
    ~(/\ service # 0
      /\ child.alive
      /\ other.service # 0
      /\ other.child.alive)

-----------------------------------------------------------------------------
(* Claims about the Overlay's send operations (specification SpecFacade).   *)

\* a send operation has returned or raised
FacadeDone == op \in FacadeOps /\ pc = "idle" /\ result # "none"

IsPrefix(p, q) == Len(p) <= Len(q) /\ p = SubSeq(q, 1, Len(p))

\* C28: a send operation called on a client that is not connected calls
\* ensure_service, then connect, then send_raw, in that order and each once (it
\* stops at the first that raises); called on a connected client it calls
\* send_raw alone, and no connection attempt is made.
C28_EnsureThenSend ==
    op \in FacadeOps =>
        /\ entryConn = 0 =>
              /\ IsPrefix(call.made, <<"ensure_service", "connect", "send_raw">>)
              /\ (pc = "idle" /\ result = "ok")
                    => call.made = <<"ensure_service", "connect", "send_raw">>
              /\ Attempts # <<>> => Len(call.made) >= 2
        /\ entryConn # 0 =>
              /\ IsPrefix(call.made, <<"send_raw">>)
              /\ pc = "idle" => call.made = <<"send_raw">>
              /\ Attempts = <<>>

\* C28 witness: a send operation called on a disconnected client has made its
\* three calls and returned
C28_Witness ==
    /\ FacadeDone
    /\ entryConn = 0
    /\ result = "ok"
    /\ call.made = <<"ensure_service", "connect", "send_raw">>
    /\ Len(sent) = 2

\* the arguments of a send_message call have the types of its signature: id
\* text or integer, text, color and size text, x, y and ttl numbers
WellTyped(a) ==
    /\ IsInstance(a.msgid, {"str", "int"})
    /\ \A v \in {a.text, a.color} : IsInstance(v, {"str"})
    /\ "size" \in a.given => IsInstance(a.size, {"str"})
    /\ \A v \in {a.x, a.y} : IsInstance(v, {"int", "float"})
    /\ "ttl" \in a.given => IsInstance(a.ttl, {"int", "float"})

\* the size and the ttl of a call: the argument, or the default when omitted
SizeOf(a) == IF "size" \in a.given THEN a.size ELSE PyStr(<<"n", "o", "r", "m", "a", "l">>)
TtlOf(a) == IF "ttl" \in a.given THEN a.ttl ELSE PyInt(4)

\* a text cut to its first 1000 characters
FirstChars(v) == PyStr(IF Len(v.s) <= 1000 THEN v.s ELSE SubSeq(v.s, 1, 1000))

\* the JSON object of the argument values as they were given
ObjectAsGiven(a) ==
    [id    |-> JsonValue(a.msgid),
     color |-> JsonValue(a.color),
     text  |-> JsonValue(a.text),
     size  |-> JsonValue(SizeOf(a)),
     x     |-> JsonValue(a.x),
     y     |-> JsonValue(a.y),
     ttl   |-> JsonValue(TtlOf(a))]

\* the JSON object of the argument values, the text, the color and the size
\* cut to their first 1000 characters
ObjectCut(a) ==
    [id    |-> JsonValue(a.msgid),
     color |-> JsonValue(FirstChars(a.color)),
     text  |-> JsonValue(FirstChars(a.text)),
     size  |-> JsonValue(FirstChars(SizeOf(a))),
     x     |-> JsonValue(a.x),
     y     |-> JsonValue(a.y),
     ttl   |-> JsonValue(TtlOf(a))]

\* every conn.send of the operation took all the bytes it was given
WorkingConnection ==
    \A i \in DOMAIN log :
        log[i].ev \in {"send_data", "send_newline"} => log[i].how = "ok"

\* a send_message call with well-typed arguments has returned on a working
\* connection
SendMessageReturned ==
    /\ FacadeDone
    /\ op = "send_message"
    /\ result = "ok"
    /\ WellTyped(call.args)
    /\ WorkingConnection

\* what the connection took during the operation is one line holding object
OneLine(object) ==
    sent = << Chunk(connection, "data", object, "all"),
              Chunk(connection, "newline", <<>>, "all") >>

LineWritten ==
    \E i \in 1..(Len(sent) - 1) :
        /\ sent[i] = Chunk(sent[i].sock, "data",
                           JsonDumps(SanitizeMessage(BuiltMessage)), "all")
        /\ sent[i + 1] = Chunk(sent[i].sock, "newline", <<>>, "all")

\* C30: a send operation returns normally only if its message line was
\* written to the connection; when ensure_service raises, the operation raises
\* that OverlayServiceError and has attempted no connection and written
\* nothing; when connect raises, the operation raises and nothing is written.
C30_NoFailureSwallowed ==
    FacadeDone =>
        /\ result = "ok" => LineWritten
        /\ call.made = <<"ensure_service">>
              => result = "OverlayServiceError" /\ log = <<>> /\ sent = <<>>
        /\ call.made = <<"ensure_service", "connect">>
              => result = "OverlayConnectionError" /\ sent = <<>>

-----------------------------------------------------------------------------
(* Claims about the liveness probe (specification SpecAlive).               *)

\* is_service_alive has returned
AliveDone == op = "is_service_alive" /\ pc = "idle" /\ result # "none"

\* test_overlay.connect() returned: one of its attempts succeeded
ProbeConnected == \E i \in DOMAIN log : log[i].ev = "attempt" /\ log[i].how = "ok"

\* test_overlay.send_message() returned: its second conn.send returned
ProbeSent == \E i \in DOMAIN log : log[i].ev = "send_newline" /\ log[i].how = "ok"

\* C27: is_service_alive never raises: it returns True exactly when the probe
\* client's connect and its send_message both returned, False on every
\* failure, and whenever it returns the probe client holds no connection and
\* close() was called on every socket it had connected.
C27_ProbeNeverRaises ==
    AliveDone =>
        /\ result \in {"True", "False"}
        /\ result = "True" <=> (ProbeConnected /\ ProbeSent)
        /\ connection = 0
        /\ ~locked
        /\ \A i \in DOMAIN log :
              (log[i].ev = "attempt" /\ log[i].how = "ok")
                 => \E j \in DOMAIN log :
                       j > i /\ log[j].ev = "close" /\ log[j].sock = log[i].sock

\* C27 witness: the probe connected, its send raised, and is_service_alive
\* returned False with the connection closed
C27_Witness ==
    /\ AliveDone
    /\ result = "False"
    /\ ProbeConnected
    /\ \E i \in DOMAIN log : log[i].ev = "close"

-----------------------------------------------------------------------------
(* Further claims about the supervisor (specification SpecService).         *)

\* C36: in stop_service terminate() is the first request made of the process;
\* kill() is called only after terminate() returned and wait(timeout=5) raised
\* TimeoutExpired, which it does only while the process has not exited; after
\* a wait() that returned, kill() is never called.
C36_KillOnlyAfterTimeout ==
    sop = "stop_service" =>
        /\ slog # <<>> => slog[1].ev = "terminate"
        /\ \A k \in Events("kill") :
              /\ k = 3
              /\ slog[1] = Step("terminate", entryService, "", "ok")
              /\ slog[2] = Step("wait", entryService, "", "timeout")
        /\ \A w \in Events("wait") :
              /\ w = 2
              /\ slog[1].how = "ok"
              /\ slog[w].how = "ok" => Events("kill") = {}

\* C36 witness: a stop_service has terminated, waited in vain and killed
C36_Witness ==
    /\ SvcDone("stop_service")
    /\ Events("kill") # {}
    /\ sresult = Ok

\* C35 as stated: a supervisor has at most one live child at any time.
C35_OneLiveChild == ~(orphan /\ service # 0 /\ child.alive)

\* C35, amended: an ensure_service that finds a handle whose process has not
\* exited returns without spawning and keeps the handle; it spawns only when
\* it holds no handle or the process of its handle has exited, and at most
\* once.  (A child whose terminate() or kill() raised in stop_service is
\* running without a handle, and is not counted.)
C35_NoSpawnOverLiveHandle ==
    (sop = "ensure_service" /\ Events("poll") # {}) =>
        /\ slog[FirstPoll].how = "running"
              => /\ PopenCalls = <<>>
                 /\ spc = "idle"
                 /\ sresult = Ok
                 /\ service = entryService
        /\ PopenCalls # <<>> => slog[FirstPoll].how \in {"none", "exited"}
        /\ Len(Spawned) <= 1

\* C35 witness: an ensure_service whose probe failed found its child running
\* and returned without a launch
C35_Witness ==
    /\ SvcDone("ensure_service")
    /\ Events("poll") # {}
    /\ slog[FirstPoll].how = "running"
    /\ child.alive
    /\ service # 0

-----------------------------------------------------------------------------
(* A further claim about threads on one Overlay (specification SpecThreads). *)

\* thread t is in the disconnect() that the context manager's handler calls
\* after a send of t on the connection it was yielded failed, about to close
\* self.connection
ClosingAfterFailure(t) ==
    /\ thr[t].pc = "disconnect_close"
    /\ thr[t].conn # 0
    /\ \E i \in DOMAIN thr[t].stack : thr[t].stack[i] = "ctx_raise"

\* C40: the failure handling of a send closes only the connection that
\* failed: the socket the handler's disconnect() closes and clears is the one
\* the context manager had yielded to the failing thread, never a connection
\* another thread has established since.
C40_ClosesOnlyFailed ==
    \A t \in Threads : ClosingAfterFailure(t) => connection = thr[t].conn

-----------------------------------------------------------------------------
(* A further claim about two threads on one supervisor (specification       *)
(* SpecServiceThreadsFair).                                                 *)

\* thread t waits for the lock of the supervisor
WaitsForLock(t) == sthr[t].pc \in {"es_lock", "stop"}

-----------------------------------------------------------------------------
(* The configuration store of config.py.  A dict is an object: the outer     *)
(* dict of a Config holds its nested dicts by identity, and "heap" maps the  *)
(* identity of a nested dict to its contents.                                *)

\* what the configuration file of a new Config is: absent, not JSON, or the
\* JSON of UserConfig
ConfigFiles == {"missing", "invalid", "valid"}

\* the content of a configuration file that loads
UserConfig == [k \in {"server"} |-> [j \in {"port"} |-> "5011"]]

\* the dotted paths given to set(), split at the dots
SetPaths ==
    {<<"server", "port">>, <<"server", "address">>, <<"overlay", "default_ttl">>,
     <<"port">>, <<"extra", "port">>}

\* the values given to set()
SetValues == {"5011", "9"}

\* Config.get's default
None == [kind |-> "none", at |-> ""]

\* the identity of the dict that set() creates in the outer dict of Config i
\* under a key that is missing
NewDict(i, key) == i \o "." \o key

\* Config._merge_config(self._config, user_config): a key that holds a dict on
\* both sides is merged in place, in the nested dict object itself
merge_config(top, update) ==
    [id \in DOMAIN heap |->
        IF \E k \in DOMAIN update : k \in DOMAIN top /\ top[k] = Dict(id)
        THEN LET k == CHOOSE k \in DOMAIN update : k \in DOMAIN top /\ top[k] = Dict(id)
             IN  [j \in DOMAIN heap[id] \cup DOMAIN update[k] |->
                     IF j \in DOMAIN update[k] THEN update[k][j] ELSE heap[id][j]]
        ELSE heap[id]]

\* Config.__init__: "self._config = DEFAULT_CONFIG.copy()", a copy of the
\* outer dict only, and "self.load()", which merges a file that exists and
\* parses and leaves the configuration alone otherwise
ConfigNew(i, file) ==
    /\ ~configs[i].made
    /\ configs' = [configs EXCEPT ![i] =
                      [made |-> TRUE, top |-> DEFAULT_CONFIG, file |-> file, own |-> FALSE]]
    /\ heap' = IF file = "valid" THEN merge_config(DEFAULT_CONFIG, UserConfig) ELSE heap

\* Config.get(path, default): "value = value[key]" for each key, and the
\* default on KeyError or TypeError
ConfigGet(i, path, default) ==
    LET top == configs[i].top IN
    IF path[1] \notin DOMAIN top THEN default
    ELSE IF Len(path) = 1 THEN top[path[1]]
    ELSE IF top[path[1]].kind # "dict" THEN default
    ELSE IF path[2] \notin DOMAIN heap[top[path[1]].at] THEN default
    ELSE Scalar(heap[top[path[1]].at][path[2]])

\* Config.set(path, value): walk to the parent of the last key, creating an
\* empty dict for a key that is missing, and store the value there
ConfigSet(i, path, value) ==
    /\ configs[i].made
    /\ LET top == configs[i].top
           key == path[1]
       IN  IF Len(path) = 1
           THEN /\ configs' = [configs EXCEPT ![i].top = Put(top, key, Scalar(value)),
                                              ![i].own = TRUE]
                /\ heap' = heap
           ELSE IF key \notin DOMAIN top
           THEN /\ configs' = [configs EXCEPT
                                  ![i].top = Put(top, key, Dict(NewDict(i, key))),
                                  ![i].own = TRUE]
                /\ heap' = Put(heap, NewDict(i, key), Put(<<>>, path[2], value))
           ELSE /\ top[key].kind = "dict"
                /\ configs' = [configs EXCEPT ![i].own = TRUE]
                /\ heap' = [heap EXCEPT ![top[key].at] = Put(@, path[2], value)]

\* Config.server_address, Config.server_port and Config.default_ttl
server_address(i) == ConfigGet(i, <<"server", "address">>, None)

server_port(i) == ConfigGet(i, <<"server", "port">>, None)

default_ttl(i) == ConfigGet(i, <<"overlay", "default_ttl">>, None)

ConfigNext ==
    \/ \E i \in Stores, file \in ConfigFiles :
          (ConfigNew(i, file)
           /\ UNCHANGED <<sanVars, cliVars, svcVars, thrVars, other, sthr, call, orphan,
                          hook, legacy, endpoint_up>>)
    \/ \E i \in Stores, path \in SetPaths, value \in SetValues :
          (ConfigSet(i, path, value)
           /\ UNCHANGED <<sanVars, cliVars, svcVars, thrVars, other, sthr, call, orphan,
                          hook, legacy, endpoint_up>>)

SpecConfig == Init /\ [][ConfigNext]_vars

-----------------------------------------------------------------------------
(* A claim about the configuration store (specification SpecConfig).         *)

\* no Config loaded a configuration file
NoFileLoaded == \A j \in Stores : configs[j].file # "valid"

\* C34: as long as no configuration file was loaded, the built-in defaults
\* are what DEFAULT_CONFIG declares, and a Config on which set() was never
\* called returns them (server address 127.0.0.1, port 5010, default ttl 4),
\* whatever set() calls were made on other instances.
C34_DefaultsUnaffected ==
    NoFileLoaded =>
        /\ heap["server"] = HeapInit["server"]
        /\ heap["overlay"] = HeapInit["overlay"]
        /\ \A i \in Stores :
              (configs[i].made /\ ~configs[i].own) =>
                  /\ server_address(i) = Scalar("127.0.0.1")
                  /\ server_port(i) = Scalar("5010")
                  /\ default_ttl(i) = Scalar("4")

-----------------------------------------------------------------------------
(* The legacy client of edmcoverlay.py.  "legacy" holds the Overlay's        *)
(* connection (0 is None), whether a write on the socket it holds has        *)
(* failed, the operation in progress and its position, the argument of       *)
(* send_raw, the exception being handled, the exception the operation        *)
(* raised, the calls the operation made and whether a write of it failed.    *)

\* what conn.send raises: BrokenPipeError, ConnectionResetError,
\* socket.timeout or another OSError
LegacyWriteErrors == {"BrokenPipeError", "ConnectionResetError", "timeout", "OSError"}

\* the arguments of send_raw: a dict, a dict whose JSON is longer than 10000
\* characters, a value that is no dict
LegacyArgs == {"dict", "big", "notdict"}

\* the module json has JSONDecodeError and no JSONEncodeError: evaluating
\* "json.JSONEncodeError" raises AttributeError
json_JSONEncodeError == FALSE

\* the caller calls an operation of the legacy Overlay
LegacyCall(fn, a) ==
    /\ legacy.pc = "idle"
    /\ fn = "send_raw" \/ a = "dict"
    /\ legacy' = [legacy EXCEPT
                     !.pc = CASE fn = "send_raw" -> "send_raw"
                              [] fn = "connect" -> "connect"
                              [] OTHER -> "enter",
                     !.op = fn, !.arg = a, !.pending = "none", !.exc = "none",
                     !.made = <<>>, !.failed = FALSE]

\* send_message and send_shape: "if not self.connection:"
LegacyEnter ==
    /\ legacy.pc = "enter"
    /\ legacy' = [legacy EXCEPT !.pc = IF legacy.connection = 0
                                       THEN "ensure_service" ELSE "send_raw"]

\* send_message and send_shape: "ensure_service(self.args)", which catches
\* what its probe and its launch raise
LegacyEnsure ==
    /\ legacy.pc = "ensure_service"
    /\ legacy' = [legacy EXCEPT !.pc = "connect",
                                !.made = Append(@, "ensure_service")]

\* Overlay.connect: the new socket is stored when it connected, and
\* ConnectionError is raised otherwise
LegacyConnect(ok) ==
    /\ legacy.pc = "connect"
    /\ IF ok
       THEN legacy' = [legacy EXCEPT
                          !.connection = 1, !.dead = FALSE,
                          !.pc = IF legacy.op = "connect" THEN "idle" ELSE "send_raw",
                          !.made = Append(@, "connect")]
       ELSE legacy' = [legacy EXCEPT !.pc = "idle", !.exc = "ConnectionError",
                                     !.made = Append(@, "connect")]

\* Overlay.send_raw, before the try: no connection returns None, a value that
\* is no dict raises ValueError
LegacySendRaw ==
    /\ legacy.pc = "send_raw"
    /\ legacy' = [legacy EXCEPT
                     !.pc = IF legacy.connection = 0 \/ legacy.arg = "notdict"
                            THEN "idle" ELSE "dumps",
                     !.exc = IF legacy.connection # 0 /\ legacy.arg = "notdict"
                             THEN "ValueError" ELSE "none"]

\* Overlay.send_raw, in the try: json.dumps and "if len(data) > 10000: raise
\* ValueError"
LegacyDumps ==
    /\ legacy.pc = "dumps"
    /\ legacy' = IF legacy.arg = "big"
                 THEN [legacy EXCEPT !.pc = "except", !.pending = "ValueError"]
                 ELSE [legacy EXCEPT !.pc = "send_data"]

\* Overlay.send_raw, in the try: "self.connection.send(encoded_data)" and
\* "self.connection.send(b'\n')", each of which returns or raises
LegacySend(e) ==
    /\ legacy.pc \in {"send_data", "send_newline"}
    /\ IF e = "none"
       THEN legacy' = [legacy EXCEPT
                          !.pc = IF legacy.pc = "send_data" THEN "send_newline" ELSE "idle",
                          !.made = Append(@, legacy.pc)]
       ELSE legacy' = [legacy EXCEPT
                          !.pc = "except", !.pending = e, !.dead = TRUE, !.failed = TRUE,
                          !.made = Append(@, legacy.pc)]

\* Overlay.send_raw, the except clauses: they are tried in order, and the
\* first is "except json.JSONEncodeError"; were the name defined, a write
\* error would clear the connection and raise ConnectionError
LegacyExcept ==
    /\ legacy.pc = "except"
    /\ IF ~json_JSONEncodeError
       THEN legacy' = [legacy EXCEPT !.pc = "idle", !.pending = "none",
                                     !.exc = "AttributeError"]
       ELSE legacy' = [legacy EXCEPT
                          !.pc = "idle", !.pending = "none", !.connection = 0,
                          !.exc = IF legacy.pending \in LegacyWriteErrors
                                  THEN "ConnectionError" ELSE legacy.pending]

LegacyFrame ==
    UNCHANGED <<sanVars, cliVars, svcVars, thrVars, other, sthr, call, orphan, hook,
                heap, configs, endpoint_up>>

LegacyNext ==
    \/ \E fn \in {"connect", "send_message", "send_shape", "send_raw"}, a \in LegacyArgs :
          (LegacyCall(fn, a) /\ LegacyFrame)
    \/ (LegacyEnter /\ LegacyFrame)
    \/ (LegacyEnsure /\ LegacyFrame)
    \/ \E ok \in BOOLEAN : (LegacyConnect(ok) /\ LegacyFrame)
    \/ (LegacySendRaw /\ LegacyFrame)
    \/ (LegacyDumps /\ LegacyFrame)
    \/ \E e \in LegacyWriteErrors \cup {"none"} : (LegacySend(e) /\ LegacyFrame)
    \/ (LegacyExcept /\ LegacyFrame)

SpecLegacy == Init /\ [][LegacyNext]_vars

-----------------------------------------------------------------------------
(* A claim about the legacy client (specification SpecLegacy).               *)

\* C38: in the legacy client an operation in which a write of send_raw failed
\* ends with the connection cleared and ConnectionError raised, and
\* send_message and send_shape never write to a socket on which a write has
\* failed: they find no connection and run ensure_service and connect first.
C38_WriteFailureClears ==
    /\ (legacy.pc = "idle" /\ legacy.failed) =>
           (legacy.connection = 0 /\ legacy.exc = "ConnectionError")
    /\ (legacy.op \in {"send_message", "send_shape"} /\ legacy.pc = "send_data") =>
           ~legacy.dead

-----------------------------------------------------------------------------
(* The plugin hooks of load.py, with USING_IMPROVED true.  "hook" holds the  *)
(* hook in progress, its position, the calls it made (each with what         *)
(* check_game_running answered at the call and how the call ended), what the *)
(* hook returned, and whether the global "client" is an Overlay.  "service"  *)
(* and "child" are the handle of load.py's service_manager and its process,  *)
(* "other" is the module's _service_manager, which Overlay.send_message      *)
(* calls.  A call of a hook is one step: it returns or raises as its own     *)
(* specification allows.  The legacy ensure_service of edmcoverlay.py always *)
(* returns, and its handle is not followed.                                  *)

\* a call made by a hook
HookCallEntry(name, how) == [call |-> name, running |-> check_game_running, how |-> how]

\* what a hook returns
ReturnValue(fn) == IF fn = "plugin_start" THEN "EDMCOverlay" ELSE "None"

\* a plugin_stop whose handler catches OverlayConnectionError only
Handler_OnlyConnection(where, e) ==
    CASE where \in {"ps_ensure", "ps_send"} ->
             IF e = "OverlayConnectionError" THEN "ps_fb_ensure" ELSE "ps_ex_ensure"
      [] where = "ps_fb_send" -> "return"
      [] where = "je_ensure" -> "je_legacy"
      [] where \in {"pst_send", "pst_stop"} ->
             IF e = "OverlayConnectionError" THEN "return" ELSE "propagate"
      [] OTHER -> "propagate"

\* where an exception raised at a place of a hook is handled: the except
\* clauses of plugin_start (OverlayConnectionError before Exception, line 49
\* and 58), the except Exception of the fallback send (line 56), of
\* journal_entry (line 91) and of plugin_stop (line 119).  A statement in an
\* except clause is covered by no clause.
Handler(where, e) ==
    CASE where \in {"ps_ensure", "ps_send"} ->
             IF e = "OverlayConnectionError" THEN "ps_fb_ensure" ELSE "ps_ex_ensure"
      [] where = "ps_fb_send" -> "return"
      [] where = "je_ensure" -> "je_legacy"
      [] where \in {"pst_send", "pst_stop"} -> "return"
      [] OTHER -> "propagate"

\* the hook goes on at a label, returns, or lets an exception out
HookTo(label, entry, cl) ==
    hook' = [hook EXCEPT
                !.pc = IF label \in {"return", "propagate"} THEN "idle" ELSE label,
                !.ret = CASE label = "return" -> ReturnValue(hook.fn)
                          [] label = "propagate" -> "raised"
                          [] OTHER -> "none",
                !.made = Append(@, entry),
                !.client = cl]

\* the host calls a hook
HookCall(fn) ==
    /\ hook.pc = "idle"
    /\ hook' = [hook EXCEPT
                   !.fn = fn,
                   !.pc = CASE fn = "plugin_start" -> "ps_ensure"
                            [] fn = "journal_entry" -> "je_alive"
                            [] OTHER -> IF hook.client THEN "pst_send" ELSE "pst_stop",
                   !.made = <<>>,
                   !.ret = "none"]
    /\ UNCHANGED <<service, child, orphan, other>>

\* how service_manager.ensure_service() can end: a no-op while the game is
\* not running; otherwise the probe answers, or the executable is not found,
\* or the handle's process still runs, or a process is launched and stays, or
\* it is launched and exits at once
EnsureOutcomes ==
    IF ~check_game_running THEN {"noop"}
    ELSE {"alive", "not_found"}
         \cup (IF service # 0 /\ child.alive THEN {"kept"} ELSE {"spawned", "launch_failed"})

\* service_manager.ensure_service() raises OverlayServiceError
EnsureRaises(how) == how \in {"not_found", "launch_failed"}

\* what service_manager.ensure_service() does to the handle
EnsureEffect(how) ==
    /\ service' = IF how \in {"spawned", "launch_failed"} THEN 1 ELSE service
    /\ child' = CASE how = "spawned" -> Running
                  [] how = "launch_failed" -> Exited(1, <<"boom">>)
                  [] OTHER -> child
    /\ UNCHANGED <<orphan, other>>

\* how Overlay.send_message on a client without connection can end: sent,
\* sent after _service_manager launched a process, OverlayServiceError from
\* _service_manager.ensure_service, OverlayConnectionError from connect or
\* from the write
SendOutcomes ==
    {"sent", "OverlayConnectionError"}
    \cup (IF check_game_running THEN {"OverlayServiceError"} ELSE {})
    \cup (IF check_game_running /\ ~(other.service # 0 /\ other.child.alive)
          THEN {"spawned_sent"} ELSE {})

\* what Overlay.send_message does to the handle of _service_manager
SendEffect(how) ==
    /\ other' = IF how = "spawned_sent"
                THEN [other EXCEPT !.service = 1, !.child = Running]
                ELSE other
    /\ UNCHANGED <<service, child, orphan>>

\* plugin_start: "service_manager.ensure_service()" and "client = Overlay()"
PsEnsure ==
    /\ hook.pc = "ps_ensure"
    /\ \E how \in EnsureOutcomes :
          /\ EnsureEffect(how)
          /\ IF EnsureRaises(how)
             THEN HookTo(Handler("ps_ensure", "OverlayServiceError"),
                         HookCallEntry("service_manager.ensure_service", how), hook.client)
             ELSE HookTo("ps_send",
                         HookCallEntry("service_manager.ensure_service", how), TRUE)

\* plugin_start: "with client: client.send_message(...)"
PsSend ==
    /\ hook.pc = "ps_send"
    /\ \E how \in SendOutcomes :
          /\ SendEffect(how)
          /\ HookTo(IF how \in {"sent", "spawned_sent"} THEN "return"
                    ELSE Handler("ps_send", how),
                    HookCallEntry("send_message", how), hook.client)

\* plugin_start, handler of OverlayConnectionError: "ensure_service()" of
\* edmcoverlay.py and "client = Overlay()"
PsFallbackEnsure ==
    /\ hook.pc = "ps_fb_ensure"
    /\ HookTo("ps_fb_send", HookCallEntry("ensure_service", "returned"), TRUE)
    /\ UNCHANGED <<service, child, orphan, other>>

\* plugin_start, handler of OverlayConnectionError: "try:
\* client.send_message(...) except Exception"
PsFallbackSend ==
    /\ hook.pc = "ps_fb_send"
    /\ \E how \in SendOutcomes :
          /\ SendEffect(how)
          /\ HookTo(IF how \in {"sent", "spawned_sent"} THEN "return"
                    ELSE Handler("ps_fb_send", how),
                    HookCallEntry("send_message", how), hook.client)

\* plugin_start, handler of Exception: "ensure_service()" of edmcoverlay.py
\* and "client = Overlay()"
PsExceptEnsure ==
    /\ hook.pc = "ps_ex_ensure"
    /\ HookTo("return", HookCallEntry("ensure_service", "returned"), TRUE)
    /\ UNCHANGED <<service, child, orphan, other>>

\* journal_entry: "if service_manager and not
\* service_manager.is_service_alive()": the probe connects whatever
\* check_game_running answers
JeAlive ==
    /\ hook.pc = "je_alive"
    /\ \E answer \in {"alive", "dead"} :
          HookTo(IF answer = "alive" THEN "return" ELSE "je_ensure",
                 HookCallEntry("is_service_alive", answer), hook.client)
    /\ UNCHANGED <<service, child, orphan, other>>

\* journal_entry: "try: service_manager.ensure_service() except Exception"
JeEnsure ==
    /\ hook.pc = "je_ensure"
    /\ \E how \in EnsureOutcomes :
          /\ EnsureEffect(how)
          /\ HookTo(IF EnsureRaises(how) THEN Handler("je_ensure", "OverlayServiceError")
                    ELSE "return",
                    HookCallEntry("service_manager.ensure_service", how), hook.client)

\* journal_entry, handler: "ensure_service()" of edmcoverlay.py
JeLegacy ==
    /\ hook.pc = "je_legacy"
    /\ HookTo("return", HookCallEntry("ensure_service", "returned"), hook.client)
    /\ UNCHANGED <<service, child, orphan, other>>

\* plugin_stop: "with client: client.send_raw({'command': 'exit'})" and
\* "client = None"; send_raw connects first and raises OverlayConnectionError
\* when the connect or the write fails
PstSend ==
    /\ hook.pc = "pst_send"
    /\ \E how \in {"sent", "OverlayConnectionError"} :
          IF how = "sent"
          THEN HookTo("pst_stop", HookCallEntry("send_raw", how), FALSE)
          ELSE HookTo(Handler("pst_send", how), HookCallEntry("send_raw", how), hook.client)
    /\ UNCHANGED <<service, child, orphan, other>>

\* plugin_stop: "service_manager.stop_service()", which clears the handle:
\* nothing to stop, the process ended, terminate() failed and was logged, or
\* kill() raised
PstStop ==
    /\ hook.pc = "pst_stop"
    /\ \E how \in (IF service = 0 THEN {"noop"}
                   ELSE {"stopped", "terminate_failed", "kill_raised"}) :
          /\ service' = 0
          /\ child' = IF how = "stopped" THEN Exited(0, <<>>) ELSE child
          /\ orphan' = (orphan \/ (how \in {"terminate_failed", "kill_raised"} /\ child.alive))
          /\ HookTo(IF how = "kill_raised" THEN Handler("pst_stop", "OSError") ELSE "return",
                    HookCallEntry("stop_service", how), hook.client)
    /\ UNCHANGED other

PluginFrame ==
    UNCHANGED <<sanVars, cliVars, thrVars, sthr, call, heap, configs, legacy,
                endpoint_up, monitor,
                game, fs, program_path, service_lock, spc, sop, program, err, probe,
                alive, sresult, slog, entryService, entryPath, fsAtFind>>

PluginNext ==
    \/ \E fn \in {"plugin_start", "journal_entry", "plugin_stop"} :
          (HookCall(fn) /\ PluginFrame)
    \/ (PsEnsure /\ PluginFrame)
    \/ (PsSend /\ PluginFrame)
    \/ (PsFallbackEnsure /\ PluginFrame)
    \/ (PsFallbackSend /\ PluginFrame)
    \/ (PsExceptEnsure /\ PluginFrame)
    \/ (JeAlive /\ PluginFrame)
    \/ (JeEnsure /\ PluginFrame)
    \/ (JeLegacy /\ PluginFrame)
    \/ (PstSend /\ PluginFrame)
    \/ (PstStop /\ PluginFrame)
    \/ (GameToggle /\ UNCHANGED <<sanVars, cliVars, thrVars, plugVars>>)
    \/ (ChildExit /\ UNCHANGED <<sanVars, cliVars, thrVars, plugVars>>)

SpecPlugin == ServiceInit /\ [][PluginNext]_vars

-----------------------------------------------------------------------------
(* Claims about the plugin hooks (specification SpecPlugin).                 *)

\* the hook fn has returned or let an exception out
HookDone(fn) == hook.fn = fn /\ hook.pc = "idle"

\* the calls of name that the hook made
HookCalls(name) == {k \in DOMAIN hook.made : hook.made[k].call = name}

\* C31: plugin_stop invokes service_manager.stop_service() on every call,
\* also when sending the exit command failed, and service_manager holds no
\* handle when plugin_stop has returned.
C31_StopAlwaysInvoked ==
    HookDone("plugin_stop") => (HookCalls("stop_service") # {} /\ service = 0)

\* C32: while check_game_running is false no probe connection is opened and
\* no process is launched: is_service_alive is not called, and every
\* ensure_service is a no-op.
C32_NoProbeWhileNotRunning ==
    \A k \in DOMAIN hook.made :
        ~hook.made[k].running =>
            /\ hook.made[k].call # "is_service_alive"
            /\ hook.made[k].call = "service_manager.ensure_service" =>
                   hook.made[k].how = "noop"
            /\ hook.made[k].how \notin {"spawned", "launch_failed", "spawned_sent"}

\* C37: plugin_start returns "EDMCOverlay" and plugin_stop returns normally,
\* whatever the calls they made raised.
C37_HooksNeverRaise ==
    /\ HookDone("plugin_start") => hook.ret = "EDMCOverlay"
    /\ HookDone("plugin_stop") => hook.ret = "None"

\* C37 witness: plugin_stop has returned after kill() raised in stop_service,
\* and plugin_start has returned after the launch and the fallback send failed
C37_Witness ==
    \/ /\ HookDone("plugin_stop")
       /\ hook.ret = "None"
       /\ hook.made[Len(hook.made)].how = "kill_raised"
    \/ /\ HookDone("plugin_start")
       /\ hook.ret = "EDMCOverlay"
       /\ \E k \in DOMAIN hook.made : hook.made[k].how = "launch_failed"

-----------------------------------------------------------------------------
(* A claim about repeated send_message calls (specification SpecRetry).      *)

\* a send_message call has returned normally
Delivered == FacadeDone /\ op = "send_message" /\ result = "ok"

\* C33: once the endpoint accepts connections and writes for good, a caller
\* that keeps calling send_message gets a call that returns normally,
\* whatever failed before (connection attempts, sends, ensure_service): no
\* state reached through failures makes every later call fail.
C33_EventuallyDelivered == endpoint_up ~> (endpoint_up /\ Delivered)

\* C33 witness: a send_message call has returned normally with the endpoint
\* up, after a connection attempt of the same call had failed
C33_Witness ==
    /\ endpoint_up
    /\ Delivered
    /\ \E i \in DOMAIN log : log[i].ev = "attempt" /\ log[i].how # "ok"

====
